---- MODULE Spec2Model ----
(***************************************************************************)
(* Model of the document extraction and normalization pipeline of          *)
(* src/wizardкостыль.py: the numeric normalizer (_clean_number), the       *)
(* structured-schema extractor (parse_accounting_xml, extract_from_xml),   *)
(* the two definitions of extract_from_pdf, the delegated AI extractor     *)
(* (analyze_pdf_with_gemini) and the batch loop (download_and_parse_boh).  *)
(*                                                                         *)
(* Text is modelled as a sequence of characters, each character a string.  *)
(***************************************************************************)
EXTENDS Integers, Sequences, FiniteSets, TLC

VARIABLES
    tok,            \* the token handed to _clean_number
    cnOut,          \* what _clean_number returned for tok
    cnOut2,         \* what _clean_number returned for str(cnOut)
    cnPc,           \* position of the normalizer run: "start", "cleaned", "renorm"
    op,             \* the function that was called, "none" before any call
    inp,            \* its arguments and what its environment held
    result,         \* the record it returned
    trace,          \* the strategies, engines and services it invoked, in order
    recFenced,      \* the record returned for the same payload in code fences
    attempt,        \* download_and_parse_boh: the attempt of the listing request
    links,          \* the hrefs of the links of the listing
    idx,            \* the link the loop is at
    served,         \* per link processed: what the loop body met and invoked
    parsed_files,   \* the list parsed_files
    boh_parsed,     \* the list the function returned
    batchPc,        \* "idle", "listing", "loop", "returned", "raised"
    runs,           \* concurrent runs of download_and_parse_boh: per run its
                    \* inn, position in the loop body, link, write offset
                    \* and the documents it parsed
    disk,           \* the files of the working directory, by path
    fetch           \* a fetch stage: its name, attempt, requests made, position
                    \* and the value it returned

cleanVars == <<tok, cnOut, cnOut2, cnPc>>

callVars == <<op, inp, result, trace, recFenced>>

batchVars == <<attempt, links, idx, served, parsed_files, boh_parsed, batchPc>>

runVars == <<runs, disk>>

vars == <<tok, cnOut, cnOut2, cnPc, op, inp, result, trace, recFenced,
          attempt, links, idx, served, parsed_files, boh_parsed, batchPc,
          runs, disk, fetch>>

(***************************************************************************)
(* Bounds of the model.                                                    *)
(***************************************************************************)
MaxTokLen == 4
MaxDecLen == 6
MaxDetails == 1
MaxPages == 2
MaxResp == 3
MaxPayload == 5
MaxLinks == 2
MaxChunks == 3
MaxBody == 2

(***************************************************************************)
(* Characters.                                                             *)
(***************************************************************************)
NBSP == "NBSP"
THINSP == "THINSP"
NL == "NL"

DigitChar == <<"0", "1", "2", "3", "4", "5", "6", "7", "8", "9">>

Digits == {DigitChar[i] : i \in 1..10}

DigitVal(c) == (CHOOSE i \in 1..10 : DigitChar[i] = c) - 1

\* str.strip() with no argument removes these from both ends
Whitespace == {" ", NL}

\* all sequences over alphabet A of length at most n
SeqsUpTo(A, n) == UNION {[1..k -> A] : k \in 0..n}

Contains(s, c) == \E i \in 1..Len(s) : s[i] = c

RECURSIVE LStrip(_, _)
LStrip(s, W) ==
    IF s = <<>> THEN s
    ELSE IF Head(s) \in W THEN LStrip(Tail(s), W) ELSE s

RECURSIVE RStrip(_, _)
RStrip(s, W) ==
    IF s = <<>> THEN s
    ELSE IF s[Len(s)] \in W THEN RStrip(SubSeq(s, 1, Len(s) - 1), W) ELSE s

\* str.strip(chars)
PyStrip(s, W) == RStrip(LStrip(s, W), W)

\* str.replace(old, new) for single characters
ReplaceChar(s, old, new) == [i \in 1..Len(s) |-> IF s[i] = old THEN new ELSE s[i]]

\* re.sub / str.replace(c, '') : delete every character that is not in Keep
KeepOnly(s, Keep) == SelectSeq(s, LAMBDA c : c \in Keep)

RECURSIVE ToNat(_)
ToNat(ds) ==
    IF ds = <<>> THEN 0
    ELSE 10 * ToNat(SubSeq(ds, 1, Len(ds) - 1)) + DigitVal(ds[Len(ds)])

RECURSIVE DigitsOf(_)
DigitsOf(n) ==
    IF n < 10 THEN <<DigitChar[n + 1]>>
    ELSE DigitsOf(n \div 10) \o <<DigitChar[(n % 10) + 1]>>

Zeros(n) == [i \in 1..n |-> "0"]

(***************************************************************************)
(* Python values returned by _clean_number: None, an int, or a float.  A   *)
(* float is kept exactly as sign, mantissa and number of decimals, the     *)
(* mantissa without trailing zeros (float('1.50') is float('1.5')).        *)
(***************************************************************************)
PyNone == [t |-> "none"]

PyInt(n) == [t |-> "int", n |-> n]

RECURSIVE NormFloat(_, _, _)
NormFloat(neg, mant, scale) ==
    IF scale > 0 /\ mant % 10 = 0 THEN NormFloat(neg, mant \div 10, scale - 1)
    ELSE [t |-> "float", neg |-> neg, mant |-> mant, scale |-> scale]

\* -val
PyNegate(v) ==
    IF v.t = "int" THEN PyInt(0 - v.n)
    ELSE IF v.t = "float" THEN [v EXCEPT !.neg = ~v.neg]
    ELSE v

AllDigits(s) == \A i \in 1..Len(s) : s[i] \in Digits

\* int(s): an optional sign and at least one digit; anything else is a ValueError
IntSyntax(s) ==
    /\ s # <<>>
    /\ LET body == IF s[1] = "-" THEN Tail(s) ELSE s
       IN  body # <<>> /\ AllDigits(body)

IntOf(s) == IF s[1] = "-" THEN 0 - ToNat(Tail(s)) ELSE ToNat(s)

\* float(s): an optional sign, digits with one period, at least one digit
FloatSyntax(s) ==
    /\ s # <<>>
    /\ LET body == IF s[1] = "-" THEN Tail(s) ELSE s
           ds == KeepOnly(body, Digits)
       IN  /\ ds # <<>>
           /\ Len(KeepOnly(body, {"."})) = 1
           /\ Len(ds) = Len(body) - 1

FloatOf(s) ==
    LET neg == s[1] = "-"
        body == IF neg THEN Tail(s) ELSE s
        dot == CHOOSE i \in 1..Len(body) : body[i] = "."
    IN  NormFloat(neg, ToNat(KeepOnly(body, Digits)), Len(body) - dot)

(***************************************************************************)
(* _clean_number, src/wizardкостыль.py lines 106-135.                      *)
(***************************************************************************)
NumberChars == Digits \cup {"-", ",", ".", " "}

\* line 112: both special spaces become a plain space; line 113: s.strip()
CleanSpaces(s) ==
    PyStrip(ReplaceChar(ReplaceChar(s, NBSP, " "), THINSP, " "), Whitespace)

\* line 116: re.match(r'^\(.*\)$', s); the period of the pattern matches no newline
ParenWrapped(s) ==
    /\ Len(s) >= 2
    /\ s[1] = "("
    /\ s[Len(s)] = ")"
    /\ \A i \in 2..(Len(s) - 1) : s[i] # NL

\* Residual without the comma rule of lines 124-125
ResidualNoComma(s) ==
    LET s1 == IF ParenWrapped(s) THEN PyStrip(s, {"(", ")"}) ELSE s
    IN  KeepOnly(s1, NumberChars \ {" "})

\* lines 119-125: the residual string handed to int() or float()
Residual(s) ==
    LET s1 == IF ParenWrapped(s) THEN PyStrip(s, {"(", ")"}) ELSE s
        s2 == KeepOnly(s1, NumberChars)
        s3 == KeepOnly(s2, NumberChars \ {" "})
    IN  IF Contains(s3, ",") /\ ~Contains(s3, ".") THEN ReplaceChar(s3, ",", ".")
        ELSE s3

PyRaise == [t |-> "raise"]

\* int(s) and float(s) of lines 130 and 132: a value, or a ValueError
PyIntCall(s) == IF IntSyntax(s) THEN PyInt(IntOf(s)) ELSE PyRaise

PyFloatCall(s) == IF FloatSyntax(s) THEN FloatOf(s) ELSE PyRaise

\* lines 134-135: the bare except turns whatever the try block raised into None
ExceptAll(v) == IF v.t = "raise" THEN PyNone ELSE v

\* lines 126-133: the try block
TryParse(r, neg) ==
    IF r = <<>> THEN PyNone
    ELSE LET val == IF Contains(r, ".") THEN PyFloatCall(r) ELSE PyIntCall(r)
         IN  IF val.t = "raise" THEN val
             ELSE IF neg THEN PyNegate(val) ELSE val

ParseResidual(r, neg) == ExceptAll(TryParse(r, neg))

clean_number(num_str) ==
    IF num_str = <<>> THEN PyNone
    ELSE LET s == CleanSpaces(num_str)
         IN  ParseResidual(Residual(s), ParenWrapped(s))

(***************************************************************************)
(* str(v) of a Python int or float, the conversion of line 110.  repr of a *)
(* float switches to exponent notation when the decimal point lies more    *)
(* than 3 places left of the first digit or more than 16 places right.     *)
(***************************************************************************)
RECURSIVE StripTrailingZeros(_)
StripTrailingZeros(ds) ==
    IF Len(ds) > 1 /\ ds[Len(ds)] = "0"
    THEN StripTrailingZeros(SubSeq(ds, 1, Len(ds) - 1))
    ELSE ds

FloatDigits(v) ==
    LET ds == DigitsOf(v.mant)
        n == Len(ds)
        decpt == n - v.scale
        sig == StripTrailingZeros(ds)
        e == decpt - 1
        ee == IF e < 0 THEN 0 - e ELSE e
        exp2 == IF ee < 10 THEN <<"0">> \o DigitsOf(ee) ELSE DigitsOf(ee)
    IN  IF v.mant = 0 THEN <<"0", ".", "0">>
        ELSE IF decpt < -3 \/ decpt > 16
        THEN <<Head(sig)>>
             \o (IF Len(sig) > 1 THEN <<".">> \o Tail(sig) ELSE <<>>)
             \o <<"e", IF e < 0 THEN "-" ELSE "+">> \o exp2
        ELSE IF decpt <= 0 THEN <<"0", ".">> \o Zeros(0 - decpt) \o ds
        ELSE IF decpt < n THEN SubSeq(ds, 1, decpt) \o <<".">> \o SubSeq(ds, decpt + 1, n)
        ELSE ds \o <<".", "0">>

PyStr(v) ==
    IF v.t = "int"
    THEN (IF v.n < 0 THEN <<"-">> \o DigitsOf(0 - v.n) ELSE DigitsOf(v.n))
    ELSE IF v.t = "float"
    THEN (IF v.neg THEN <<"-">> ELSE <<>>) \o FloatDigits(v)
    ELSE <<"N", "o", "n", "e">>

(***************************************************************************)
(* Python dicts are functions from the keys present to their values; the   *)
(* keys of multi_year_data are written in Latin letters.                   *)
(***************************************************************************)
EmptyDict == <<>>

\* d[k] = v
Put(d, k, v) == [x \in (DOMAIN d) \cup {k} |-> IF x = k THEN v ELSE d[x]]

\* a string value, kept as its characters
PyStrV(cs) == [t |-> "str", s |-> cs]

\* bool(v) of a value read from a document
Truthy(v) ==
    IF v.t = "none" THEN FALSE
    ELSE IF v.t = "str" THEN v.s # <<>>
    ELSE IF v.t = "int" THEN v.n # 0
    ELSE IF v.t = "float" THEN v.mant # 0
    ELSE TRUE

(***************************************************************************)
(* The record every extractor returns (result = {...}).  A key the code    *)
(* never sets is kept at its "absent" value: error = "" is no error key,   *)
(* myd = "absent" is no multi_year_data key, myd = "none" is the key set   *)
(* to None, has_success = FALSE is no success key.  error_bytes are the    *)
(* bytes of the file the error message quotes.                             *)
(***************************************************************************)
BaseRec ==
    [ src |-> "",
      has_success |-> TRUE,
      success |-> FALSE,
      error |-> "",
      error_bytes |-> <<>>,
      raw_response |-> [present |-> FALSE, text |-> <<>>],
      report_type |-> <<>>,
      report_year |-> PyNone,
      myd |-> "absent",
      years |-> <<>>,
      balance |-> EmptyDict,
      financial_results |-> EmptyDict,
      cash_flows |-> EmptyDict,
      analysis |-> "absent",
      text |-> <<>> ]

(***************************************************************************)
(* A markup document as parse_accounting_xml reads it.                     *)
(*   decode    the bytes decode under windows-1251 (line 489)              *)
(*   wf        the decoded text is well-formed markup (line 492)           *)
(*   wfBytes   the bytes are well-formed markup in their own encoding      *)
(*             (ET.parse, line 905)                                        *)
(*   hasDoc    the root has a descendant element Документ (line 496)       *)
(*   year, knd the attributes ОтчетГод and КНД of it                       *)
(*   attrs     which sum attributes the line-item elements carry           *)
(***************************************************************************)
ActiveTags == {"MatVneAkt", "FinVlozh", "Zapasy", "DenezhnSr", "NeMatFinAkt"}

PassiveTags == {"KapRez", "DlgZaemSredstv", "DrDolgosrObyaz", "KreditZadolzh"}

FinTags == {"Vyruch", "RashObDeyat", "ProchDohod", "ProchRashod", "NalPribDoh", "ChistPribUb"}

\* lines 744-838 and 846-884: the key of multi_year_data an element is stored under
BalanceLabel(tag) ==
    CASE tag = "Aktiv" -> "AKTIV_vsego"
      [] tag = "MatVneAkt" -> "Vneoborotnye_aktivy"
      [] tag = "FinVlozh" -> "Finansovye_vlozheniya"
      [] tag = "Zapasy" -> "Zapasy"
      [] tag = "DenezhnSr" -> "Denezhnye_sredstva"
      [] tag = "NeMatFinAkt" -> "Nematerialnye_aktivy"
      [] tag = "Passiv" -> "PASSIV_vsego"
      [] tag = "KapRez" -> "Kapital_i_rezervy"
      [] tag = "DlgZaemSredstv" -> "Dolgosrochnye_zaemnye_sredstva"
      [] tag = "DrDolgosrObyaz" -> "Drugie_dolgosrochnye_obyazatelstva"
      [] tag = "KreditZadolzh" -> "Kreditorskaya_zadolzhennost"

FinLabel(tag) ==
    CASE tag = "Vyruch" -> "Vyruchka"
      [] tag = "RashObDeyat" -> "Rashody_po_obychnoi_deyatelnosti"
      [] tag = "ProchDohod" -> "Prochie_dohody"
      [] tag = "ProchRashod" -> "Prochie_rashody"
      [] tag = "NalPribDoh" -> "Nalog_na_pribyl"
      [] tag = "ChistPribUb" -> "Chistaya_pribyl_ubytok"

SumValue == PyStrV(<<"1", "0", "0">>)

\* elem.get(attribute): the attribute's text, or None when the element lacks it
AttrCur(doc) == IF doc.attrs \in {"all", "current"} THEN SumValue ELSE PyNone

AttrPrev(doc) == IF doc.attrs = "all" THEN SumValue ELSE PyNone

\* a balance element read without its prior-2-years attribute
TripleWithoutPrev2(doc) == <<AttrCur(doc), AttrPrev(doc)>>

\* lines 545-547, 555-557, ...: СумОтч, СумПрдШв, СумПрдЩ of a balance element
Triple(doc) == <<AttrCur(doc), AttrPrev(doc), AttrPrev(doc)>>

\* lines 654-655, ...: СумОтч, СумПред of an income element
Pair(doc) == <<AttrCur(doc), AttrPrev(doc)>>

KND_SIMPLIFIED == "0710096"

NA == PyStrV(<<"N", "/", "A">>)

\* line 731: the text int() reads, blanks around the number left out
IntText(s) == PyStrip(s, Whitespace)

\* year labels without the derived ones
YearLabelsCurrentOnly(report_year) ==
    IF ~Truthy(report_year) THEN <<>> ELSE <<report_year>>

\* lines 729-736: the year labels
YearLabels(report_year) ==
    IF ~Truthy(report_year) THEN <<>>
    ELSE IF IntSyntax(IntText(report_year.s))
         THEN LET y == IntOf(IntText(report_year.s))
              IN  <<PyStrV(PyStr(PyInt(y))), PyStrV(PyStr(PyInt(y - 1))),
                    PyStrV(PyStr(PyInt(y - 2)))>>
         ELSE <<report_year, NA, NA>>

\* lines 536-539 and 642-648: report_type, the labels joined by " + "
ReportType(doc) ==
    LET t0 == IF doc.knd = KND_SIMPLIFIED THEN <<"Uproshchennaya_forma">> ELSE <<>>
        t1 == IF doc.balance.present THEN <<"Buhgalterskii_balans">> ELSE t0
    IN  IF doc.finrez.present THEN t1 \o <<"Otchet_o_finansovyh_rezultatah">> ELSE t1

\* lines 739-838: multi_year["balance"]
SideEntries(doc, side, totalTag) ==
    IF ~side.present THEN EmptyDict
    ELSE [l \in {BalanceLabel(totalTag)} \cup {BalanceLabel(g) : g \in side.details}
            |-> Triple(doc)]

MultiYearBalance(doc) ==
    IF ~doc.balance.present THEN EmptyDict
    ELSE SideEntries(doc, doc.balance.active, "Aktiv")
         @@ SideEntries(doc, doc.balance.passive, "Passiv")

\* lines 841-884: multi_year["financial_results"]
MultiYearFin(doc) ==
    IF ~doc.finrez.present THEN EmptyDict
    ELSE [l \in {FinLabel(g) : g \in doc.finrez.items} |-> Pair(doc)]

\* lines 495-887, the try block after the file was read and parsed
ParsedXmlRec(doc) ==
    IF ~doc.hasDoc
    THEN [BaseRec EXCEPT !.src = "parse_accounting_xml", !.success = TRUE,
                         !.myd = "dict"]
    ELSE [BaseRec EXCEPT !.src = "parse_accounting_xml", !.success = TRUE,
                         !.report_year = doc.year,
                         !.report_type = ReportType(doc),
                         !.myd = "dict",
                         !.years = YearLabels(doc.year),
                         !.balance = MultiYearBalance(doc),
                         !.financial_results = MultiYearFin(doc)]

\* an except clause that records nothing
XmlFailureSilent(msg) == [BaseRec EXCEPT !.src = "parse_accounting_xml"]

\* lines 889-891: the except clause, error = str(e)
XmlFailure(msg) ==
    [BaseRec EXCEPT !.src = "parse_accounting_xml", !.error = msg,
                    !.text = <<"parse_error">>]

\* parse_accounting_xml, lines 470-893
parse_accounting_xml(file) ==
    IF ~file.readable THEN XmlFailure("no_such_file")
    ELSE IF ~file.xml.decode THEN XmlFailure("charmap_cannot_decode")
    ELSE IF ~file.xml.wf THEN XmlFailure("xml_syntax_error")
    ELSE ParsedXmlRec(file.xml)

\* lines 903-929: the generic parser, ET.parse on the bytes
GenericXmlRec(file) ==
    IF file.readable /\ file.xml.wfBytes
    THEN [BaseRec EXCEPT !.src = "extract_from_xml", !.success = TRUE,
                         !.text = <<"elements">>]
    ELSE [BaseRec EXCEPT !.src = "extract_from_xml",
                         !.error = IF file.readable THEN "xml_syntax_error"
                                   ELSE "no_such_file"]

\* extract_from_xml, lines 895-929: the record and the strategies it ran
extract_from_xml(file) ==
    LET accounting_result == parse_accounting_xml(file)
    IN  IF accounting_result.success
        THEN [rec |-> accounting_result, trace |-> <<"parse_accounting_xml">>]
        ELSE [rec |-> GenericXmlRec(file),
              trace |-> <<"parse_accounting_xml", "generic_xml">>]

(***************************************************************************)
(* The delegated AI extractor, analyze_pdf_with_gemini (lines 1474-1685).  *)
(*                                                                         *)
(* The text the service returns is a sequence of these symbols:            *)
(*   "F"     three backticks                                               *)
(*   "json"  the word json                                                 *)
(*   "{" "}" "," "q" "1"   braces, comma, double quote, a digit            *)
(*   "k"     a key with its colon, to be followed by a value               *)
(*   "M"     the member "multi_year_data": {...} with aligned sequences    *)
(*   "Mu"    the same member with a sequence shorter than years            *)
(*   "Mn"    the member "multi_year_data": null                            *)
(*   "A"     the member "analysis": {...}                                  *)
(*   "As"    the member "analysis": "some text"                            *)
(*   " "     whitespace, "x" any other character                           *)
(***************************************************************************)
FENCE == "F"
JSONWORD == "json"

Members == {"M", "Mu", "Mn", "A", "As"}

\* the position of the first occurrence of sep in s, 0 when there is none
RECURSIVE FindFrom(_, _, _)
FindFrom(s, sep, i) ==
    IF i + Len(sep) - 1 > Len(s) THEN 0
    ELSE IF SubSeq(s, i, i + Len(sep) - 1) = sep THEN i
    ELSE FindFrom(s, sep, i + 1)

Find(s, sep) == FindFrom(s, sep, 1)

\* sep in s
HasSub(s, sep) == Find(s, sep) # 0

\* s.split(sep)[0]
BeforeFirst(s, sep) ==
    IF Find(s, sep) = 0 THEN s ELSE SubSeq(s, 1, Find(s, sep) - 1)

\* sep.join(s.split(sep)[1:]), for s that holds sep
AfterFirst(s, sep) == SubSeq(s, Find(s, sep) + Len(sep), Len(s))

\* s.split(sep)[1], for s that holds sep
SplitSecond(s, sep) == BeforeFirst(AfterFirst(s, sep), sep)

\* lines 1661-1665: the fenced block cut out of the stripped text
CutFences(response_text) ==
    IF HasSub(response_text, <<FENCE, JSONWORD>>)
    THEN PyStrip(BeforeFirst(SplitSecond(response_text, <<FENCE, JSONWORD>>),
                             <<FENCE>>), Whitespace)
    ELSE IF HasSub(response_text, <<FENCE>>)
    THEN PyStrip(BeforeFirst(SplitSecond(response_text, <<FENCE>>), <<FENCE>>),
                 Whitespace)
    ELSE response_text

\* lines 1659-1665: strip, then cut the fenced block out
StripFences(text) == CutFences(PyStrip(text, Whitespace))

(***************************************************************************)
(* json.loads (line 1668) on the symbols above: a value is an object, a    *)
(* string or a number; anything else is a JSONDecodeError.                 *)
(***************************************************************************)
JsonFail == [ok |-> FALSE, rest |-> <<>>, ty |-> "", mem |-> <<>>]

SkipWs(s) == LStrip(s, Whitespace)

\* the symbols whose text holds a double quote
QuoteBearing == Members \cup {"k", "q"}

\* the position of the double quote that closes a string whose text is s, 0 when
\* the text ends first or the next quote is followed by the rest of a key
StringEnd(s) ==
    IF \A i \in 1..Len(s) : s[i] \notin QuoteBearing THEN 0
    ELSE LET j == CHOOSE i \in 1..Len(s) :
                    /\ s[i] \in QuoteBearing
                    /\ \A h \in 1..(i - 1) : s[h] \notin QuoteBearing
         IN  IF s[j] = "q" THEN j ELSE 0

RECURSIVE JsonValue(_)
RECURSIVE JsonMembers(_, _)

\* after "{": the empty object, or its members
JsonObject(s) ==
    IF s # <<>> /\ Head(s) = "}"
    THEN [ok |-> TRUE, rest |-> Tail(s), ty |-> "dict", mem |-> <<>>]
    ELSE JsonMembers(s, <<>>)

\* after the opening quote: the string ends at position end of s
JsonString(s, end) ==
    IF end = 0 THEN JsonFail
    ELSE [ok |-> TRUE, rest |-> SubSeq(s, end + 1, Len(s)), ty |-> "str", mem |-> <<>>]

\* the value of a key, as a member that sets none of the keys read
KeyMember(v) ==
    IF v.ok THEN [ok |-> TRUE, rest |-> v.rest, ty |-> "", mem |-> <<>>] ELSE JsonFail

\* one member at the head of s1
JsonMember(s1) ==
    IF s1 = <<>> THEN JsonFail
    ELSE IF Head(s1) \in Members
    THEN [ok |-> TRUE, rest |-> Tail(s1), ty |-> "", mem |-> <<Head(s1)>>]
    ELSE IF Head(s1) = "k" THEN KeyMember(JsonValue(SkipWs(Tail(s1))))
    ELSE JsonFail

\* after the members got: "}" ends the object, "," brings the next member
JsonAfterMember(s2, got) ==
    IF s2 = <<>> THEN JsonFail
    ELSE IF Head(s2) = "}"
    THEN [ok |-> TRUE, rest |-> Tail(s2), ty |-> "dict", mem |-> got]
    ELSE IF Head(s2) = "," THEN JsonMembers(Tail(s2), got)
    ELSE JsonFail

JsonMemberThen(m, got) ==
    IF ~m.ok THEN JsonFail ELSE JsonAfterMember(SkipWs(m.rest), got \o m.mem)

\* after "{" or ",": one member, then "," or "}"
JsonMembers(s, got) == JsonMemberThen(JsonMember(SkipWs(s)), got)

JsonValue(s) ==
    IF s = <<>> THEN JsonFail
    ELSE IF Head(s) = "{" THEN JsonObject(SkipWs(Tail(s)))
    ELSE IF Head(s) = "q" THEN JsonString(Tail(s), StringEnd(Tail(s)))
    ELSE IF Head(s) = "1"
         THEN [ok |-> TRUE, rest |-> LStrip(s, {"1"}), ty |-> "num", mem |-> <<>>]
    ELSE JsonFail

\* json.loads(text): the value, or ok = FALSE for a JSONDecodeError
WholeText(v) == IF v.ok /\ SkipWs(v.rest) = <<>> THEN v ELSE JsonFail

JsonLoads(text) == WholeText(JsonValue(SkipWs(text)))

\* data.get(key): the last member of the object that sets the key, "" when none does
RECURSIVE LastOf(_, _)
LastOf(mem, keys) ==
    IF mem = <<>> THEN ""
    ELSE IF mem[Len(mem)] \in keys THEN mem[Len(mem)]
    ELSE LastOf(SubSeq(mem, 1, Len(mem) - 1), keys)

AiYears == <<PyStrV(<<"2", "0", "2", "2">>), PyStrV(<<"2", "0", "2", "3">>)>>

\* lines 1672-1677: the fields copied from the parsed object
AiFields(rec, m, a) ==
    [rec EXCEPT
        !.myd = IF m \in {"M", "Mu"} THEN "dict" ELSE "none",
        !.years = IF m \in {"M", "Mu"} THEN AiYears ELSE <<>>,
        !.balance = IF m = "M" THEN [l \in {"AKTIV_vsego"} |-> <<PyInt(100), PyInt(120)>>]
                    ELSE IF m = "Mu" THEN [l \in {"AKTIV_vsego"} |-> <<PyInt(100)>>]
                    ELSE EmptyDict,
        !.financial_results =
            IF m \in {"M", "Mu"} THEN [l \in {"Vyruchka"} |-> <<PyInt(100), PyInt(120)>>]
            ELSE EmptyDict,
        !.analysis = IF a = "A" THEN "dict" ELSE IF a = "As" THEN "str" ELSE "none"]

AiFilled(rec, data) ==
    AiFields(rec, LastOf(data.mem, {"M", "Mu", "Mn"}), LastOf(data.mem, {"A", "As"}))

\* line 1478-1486: the result before the try block
AiInitial ==
    [BaseRec EXCEPT !.src = "analyze_pdf_with_gemini", !.myd = "none",
                    !.analysis = "none"]

\* lines 1668-1677: json.loads gave data for response_text
AiLoaded(response_text, data) ==
    IF ~data.ok
    THEN [rec |-> AiInitial, exc |-> "JSONDecodeError", calls |-> 1,
          parsed |-> TRUE, text |-> response_text]
    ELSE IF data.ty # "dict"
    THEN [rec |-> [AiInitial EXCEPT !.success = TRUE], exc |-> "AttributeError",
          calls |-> 1, parsed |-> TRUE, text |-> response_text]
    ELSE [rec |-> AiFilled([AiInitial EXCEPT !.success = TRUE], data), exc |-> "",
          calls |-> 1, parsed |-> TRUE, text |-> response_text]

AiParse(response_text) == AiLoaded(response_text, JsonLoads(response_text))

(***************************************************************************)
(* lines 1488-1677, the try block: the record as far as it was filled, the *)
(* exception that ended the block ("" when none did), the calls made to    *)
(* the service and the text handed to json.loads.                          *)
(*   svc.outcome  "ok": the service answered svc.text; "error": the call   *)
(*                raised; "blocked": reading response.text raised          *)
(***************************************************************************)
AiTry(file, svc) ==
    IF ~file.readable
    THEN [rec |-> AiInitial, exc |-> "OSError", calls |-> 0, parsed |-> FALSE, text |-> <<>>]
    ELSE IF svc.outcome # "ok"
    THEN [rec |-> AiInitial, exc |-> "ServiceError", calls |-> 1, parsed |-> FALSE,
          text |-> <<>>]
    ELSE AiParse(StripFences(svc.text))

\* lines 1679-1685: the two except clauses; nothing is raised to the caller
AiHandlers(t) ==
    IF t.exc = "" THEN [rec |-> t.rec, raised |-> FALSE]
    ELSE IF t.exc = "JSONDecodeError"
    THEN [rec |-> [t.rec EXCEPT !.error = "json_parse_error",
                                !.raw_response = [present |-> TRUE, text |-> t.text]],
          raised |-> FALSE]
    ELSE [rec |-> [t.rec EXCEPT !.error = "ai_analysis_error"], raised |-> FALSE]

\* analyze_pdf_with_gemini: the record, the service calls, whether it raised
AiReturn(t) ==
    [rec |-> AiHandlers(t).rec, raised |-> AiHandlers(t).raised,
     trace |-> [i \in 1..t.calls |-> "ai_call"]]

analyze_pdf_with_gemini(file, svc) == AiReturn(AiTry(file, svc))

(***************************************************************************)
(* parse_accounting_from_text (lines 137-252).  A transcript is modelled   *)
(* by what the regular expressions of the function find in it:             *)
(*   empty          the text is empty or blank (line 152)                  *)
(*   year           what the patterns of lines 158 and 161 find:           *)
(*                    za    the four digits of a "za <YYYY>" phrase        *)
(*                    word  the word after them (optional group 2)         *)
(*                    near  the four digits found after balans / otchet    *)
(*   bal            the word of line 181 occurs                            *)
(*   total_active, total_passive   the text after the words of lines     *)
(*                  212-213, when they occur                               *)
(*   details        label -> the text after the label of lines 188-196     *)
(*   fin            key -> the text after the word of lines 226-229        *)
(* The patterns capture from that text a group over digits, minus,         *)
(* parentheses, white space, period and comma; it is handed to             *)
(* _clean_number.                                                          *)
(***************************************************************************)
NoMatch == [m |-> FALSE, g |-> <<>>]

Matched(g) == [m |-> TRUE, g |-> g]

\* the class [0-9\-\(\)\s\.,] of the captured groups
GroupChars == Digits \cup {"-", "(", ")", ".", ",", " ", NL, NBSP, THINSP}

\* the longest prefix of s made of characters of C
RECURSIVE Run(_, _)
Run(s, C) ==
    IF s = <<>> \/ Head(s) \notin C THEN <<>>
    ELSE <<Head(s)>> \o Run(Tail(s), C)

\* s from its first character of C on
RECURSIVE From(_, _)
From(s, C) ==
    IF s = <<>> \/ Head(s) \in C THEN s ELSE From(Tail(s), C)

\* the last character of s that is in C, as a text; <<>> when there is none
RECURSIVE LastChar(_, _)
LastChar(s, C) ==
    IF s = <<>> THEN <<>>
    ELSE IF s[Len(s)] \in C THEN <<s[Len(s)]>>
    ELSE LastChar(SubSeq(s, 1, Len(s) - 1), C)

\* \D*([0-9\-\(\)\s\.,]+) of lines 189-196 and 226-229 on the text after
\* the label: \D* takes everything before the first digit and the group runs
\* from that digit over every character of the class, blanks and line breaks
\* included; without a digit \D* gives back up to the last character of the
\* class.  <<>> = the pattern does not match.
LabelGroup(after) ==
    IF From(after, Digits) # <<>> THEN Run(From(after, Digits), GroupChars)
    ELSE LastChar(after, GroupChars)

\* .{0,40}?([0-9\-\(\)\s\.,]+) of lines 212-213: the group starts at the
\* first character of the class
TotalGroup(after) == Run(From(after, GroupChars), GroupChars)

\* lines 212-213: the match of a total's pattern, when its words occur
TotalMatch(found) ==
    IF found.m /\ TotalGroup(found.g) # <<>> THEN Matched(TotalGroup(found.g)) ELSE NoMatch

\* lines 199-201 and 231-232: the labels whose pattern matches
MatchedLabels(tails) == {l \in DOMAIN tails : LabelGroup(tails[l]) # <<>>}

\* line 206: the labels stored under the active side
ActiveLabels ==
    {"Vneoborotnye_aktivy", "Zapasy", "Denezhnye_sredstva", "Finansovye_vlozheniya",
     "Nematerialnye_aktivy"}

\* the labels of lines 194-196, stored under the passive side
PassiveLabels ==
    {"Kapital_i_rezervy", "Dolgosrochnye_zaemnye_sredstva", "Kreditorskaya_zadolzhennost"}

FinKeys == {"revenue", "net_profit", "income_tax", "expenses"}

\* lines 235-243: the last group holding a digit, else group 1; group 1 of the
\* income_tax pattern is the optional letters of the word, the token elsewhere
FinGroup(key, g) ==
    IF \E i \in 1..Len(g) : g[i] \in Digits THEN g
    ELSE IF key = "income_tax" THEN <<"a", "a">>
    ELSE g

\* line 158: the groups of the match of the "za <YYYY>" pattern, the four digits
\* and the optional word after them; <<>> = no match
ZaGroups(y) == IF y.za.t = "none" THEN <<>> ELSE <<y.za, y.word>>

\* line 161: the groups of the match of the alternative pattern, the word and
\* the four digits found after it
NearGroups(y) == IF y.near.t = "none" THEN <<>> ELSE <<PyStrV(<<"b">>), y.near>>

\* lines 158-161: the alternative pattern is tried only when the first one
\* found nothing
YearMatch(y) == IF ZaGroups(y) # <<>> THEN ZaGroups(y) ELSE NearGroups(y)

\* lines 162-163: group 1 of a match with one group, else group 2
StoredYear(groups) ==
    IF groups = <<>> THEN PyNone
    ELSE IF Len(groups) = 1 THEN groups[1] ELSE groups[2]

TextYear(y) == StoredYear(YearMatch(y))

\* lines 198-222: one side of res["balance"]; present = the key was set
SideOf(total, found, details) ==
    [present |-> total.m \/ found # {},
     has_total |-> total.m,
     total_current |-> IF total.m THEN clean_number(total.g) ELSE PyNone,
     details |-> [l \in found |-> clean_number(LabelGroup(details[l]))]]

TextSide(total, labels, details) ==
    SideOf(TotalMatch(total), MatchedLabels(details) \cap labels, details)

NoSide == [present |-> FALSE, has_total |-> FALSE, total_current |-> PyNone,
           details |-> EmptyDict]

parse_accounting_from_text(txt) ==
    IF txt.empty
    THEN [report_type |-> <<>>, report_year |-> PyNone, active |-> NoSide,
          passive |-> NoSide, financial_results |-> EmptyDict, structured |-> FALSE]
    ELSE [report_type |-> IF txt.bal THEN <<"Buhgalterskii_balans">> ELSE <<>>,
          report_year |-> TextYear(txt.year),
          active |-> IF txt.bal THEN TextSide(txt.total_active, ActiveLabels, txt.details)
                     ELSE NoSide,
          passive |-> IF txt.bal THEN TextSide(txt.total_passive, PassiveLabels, txt.details)
                      ELSE NoSide,
          financial_results |->
              [k \in MatchedLabels(txt.fin) |->
                  clean_number(FinGroup(k, LabelGroup(txt.fin[k])))],
          structured |-> TRUE]

\* lines 449-456: the key of multi_year_data a result is stored under
HeurFinLabel(key) ==
    CASE key = "revenue" -> "Vyruchka"
      [] key = "net_profit" -> "Chistaya_pribyl_ubytok"
      [] key = "expenses" -> "Rashody"
      [] key = "income_tax" -> "Nalog_na_pribyl"

\* lines 430-436 and 438-444: one side carried over to multi_year_data["balance"]
HeurSide(side, totalLabel) ==
    IF ~side.present THEN EmptyDict
    ELSE (IF Truthy(side.total_current)
          THEN [l \in {totalLabel} |-> <<side.total_current>>] ELSE EmptyDict)
         @@ [l \in DOMAIN side.details |-> <<side.details[l]>>]

\* lines 409-456: the fields merged from the text parser into the result
HeuristicMerge(rec, parsed) ==
    LET r1 == [rec EXCEPT !.report_type = parsed.report_type,
                          !.report_year = parsed.report_year]
    IN  IF parsed.active.present \/ parsed.passive.present
           \/ DOMAIN parsed.financial_results # {}
        THEN [r1 EXCEPT
                !.myd = "dict",
                !.years = <<parsed.report_year>>,
                !.balance = HeurSide(parsed.active, "AKTIV_vsego")
                            @@ HeurSide(parsed.passive, "PASSIV_vsego"),
                !.financial_results =
                    [l \in {HeurFinLabel(k) : k \in DOMAIN parsed.financial_results}
                       |-> <<parsed.financial_results[
                               CHOOSE k \in DOMAIN parsed.financial_results :
                                   HeurFinLabel(k) = l]>>]]
        ELSE r1

(***************************************************************************)
(* The two definitions of extract_from_pdf.  The module defines the name   *)
(* twice; the definition of line 931 is the one bound to the name once the *)
(* module is loaded, the definition of line 254 is the one with the        *)
(* structural diagnostic, OCR and the heuristic parser.                    *)
(*                                                                         *)
(* A paginated document:                                                   *)
(*   encrypted       the document is encrypted                             *)
(*   meta_encrypted  its metadata dictionary holds a true Encrypted entry  *)
(*   open_raises     opening it with the library raises                    *)
(*   pages           its page count, text_pages of them with a text layer  *)
(*   ocr             what OCR of it does: "raises", "empty", "text"        *)
(*   txt             what the text parser finds in its transcript          *)
(* A file: readable, content its bytes, hdr "pdf" when the content starts  *)
(* with the signature, utf8 when it decodes as UTF-8, markup when its text *)
(* passes the test of line 277.                                            *)
(* env.PDF_LIB is "pdfplumber", "pymupdf" or "none" (lines 21-29),         *)
(* env.OCR_AVAILABLE the flag of lines 33-37.                              *)
(***************************************************************************)
PdfRec(name) == [BaseRec EXCEPT !.src = name]

(***************************************************************************)
(* The header check reads the content of the file, a sequence of bytes:    *)
(* one character each, BAD a byte that is no UTF-8.                        *)
(***************************************************************************)
PDF_MAGIC == <<"%", "P", "D", "F">>

XML_DECL == <<"<", "?", "x", "m", "l">>

BAD == "xFF"

Take(s, n) == SubSeq(s, 1, IF Len(s) < n THEN Len(s) ELSE n)

\* s.startswith(p)
StartsWith(s, p) == Len(s) >= Len(p) /\ SubSeq(s, 1, Len(p)) = p

\* lines 271 and 941: header = f.read(10)
HeaderOf(content) == Take(content, 10)

\* lines 275-276 and 945-946: open(..., encoding='utf-8').read() does not raise
DecodesUtf8(content) == ~Contains(content, BAD)

\* a test that looks for the declaration only
MarkupTestDeclOnly(content) == HasSub(content, XML_DECL)

\* lines 277 and 947: '<?xml' in content or content.strip().startswith('<')
MarkupTest(content) ==
    HasSub(content, XML_DECL) \/ StartsWith(PyStrip(content, Whitespace), <<"<">>)

\* lines 282 and 952, 285 and 982: the record of a file that is not taken up;
\* the message of a file without the signature quotes the header
Rejected(rec, file, h) ==
    [rec EXCEPT !.error = h,
                !.error_bytes = IF h = "not_pdf" THEN HeaderOf(file.content) ELSE <<>>]

\* lines 269-286 and 940-953: the header check; "pdf" when the file goes on
HeaderCheck(file) ==
    IF ~file.readable THEN "read_error"
    ELSE IF file.hdr = "pdf" THEN "pdf"
    ELSE IF file.utf8 /\ file.markup THEN "markup"
    ELSE "not_pdf"

\* lines 288-314: the structural diagnostic
PdfDiagnostic(file, env) ==
    IF env.PDF_LIB = "none" THEN "pdf_no_pages"
    ELSE IF file.pdf.open_raises THEN "diagnostic_raised"
    ELSE IF (IF env.PDF_LIB = "pdfplumber" THEN file.pdf.meta_encrypted
             ELSE file.pdf.encrypted)
         THEN "pdf_encrypted"
    ELSE IF file.pdf.pages = 0 THEN "pdf_no_pages"
    ELSE "pass"

\* lines 316-365: the engine of PDF_LIB; has_text = some page gave text
PdfEngines(file, env) ==
    [trace |-> IF env.PDF_LIB = "none" THEN <<>> ELSE <<env.PDF_LIB>>,
     has_text |-> /\ env.PDF_LIB # "none"
                  /\ ~file.pdf.open_raises
                  /\ file.pdf.text_pages > 0]

BlankText == [empty |-> TRUE]

\* the page separator joined between the pages' texts, no word of a report in it
SeparatorText ==
    [empty |-> FALSE, year |-> [za |-> PyNone, word |-> PyNone, near |-> PyNone],
     bal |-> FALSE, total_active |-> NoMatch,
     total_passive |-> NoMatch, details |-> EmptyDict, fin |-> EmptyDict]

\* lines 384 and 974: the texts of all pages joined, the blank ones included
JoinAll(file, some_text) ==
    IF some_text THEN <<"transcript">>
    ELSE IF file.pdf.pages >= 2 THEN <<"separators">>
    ELSE <<>>

\* lines 316-466, after the diagnostic
PdfExtract(file, env, rec, trace0) ==
    LET eng == PdfEngines(file, env)
        ok == [rec EXCEPT !.success = TRUE]
    IN  IF eng.has_text
        THEN [rec |-> HeuristicMerge([ok EXCEPT !.text = <<"transcript">>],
                                     parse_accounting_from_text(file.pdf.txt)),
              trace |-> trace0 \o eng.trace]
        ELSE IF ~env.OCR_AVAILABLE
        THEN [rec |-> [rec EXCEPT !.error = "empty_text"], trace |-> trace0 \o eng.trace]
        ELSE IF file.pdf.ocr = "raises"
        THEN [rec |-> [rec EXCEPT !.error = "ocr_error"],
              trace |-> trace0 \o eng.trace \o <<"ocr">>]
        ELSE IF file.pdf.ocr = "empty"
        THEN [rec |-> HeuristicMerge([ok EXCEPT !.text = JoinAll(file, FALSE)],
                                     parse_accounting_from_text(
                                         IF file.pdf.pages >= 2 THEN SeparatorText
                                         ELSE BlankText)),
              trace |-> trace0 \o eng.trace \o <<"ocr">>]
        ELSE [rec |-> HeuristicMerge([ok EXCEPT !.text = <<"transcript">>],
                                     parse_accounting_from_text(file.pdf.txt)),
              trace |-> trace0 \o eng.trace \o <<"ocr">>]

\* extract_from_pdf as defined at lines 254-466
extract_from_pdf_first(file, env) ==
    LET h == HeaderCheck(file)
        d == PdfDiagnostic(file, env)
        rec == PdfRec("extract_from_pdf_first")
    IN  IF h = "markup"
        THEN [rec |-> parse_accounting_xml(file), trace |-> <<"parse_accounting_xml">>]
        ELSE IF h # "pdf" THEN [rec |-> Rejected(rec, file, h), trace |-> <<>>]
        ELSE IF d \in {"pdf_encrypted", "pdf_no_pages"}
        THEN [rec |-> [rec EXCEPT !.error = d], trace |-> <<"diagnostic">>]
        ELSE PdfExtract(file, env, rec, <<"diagnostic">>)

\* extract_from_pdf as defined at lines 931-982
extract_from_pdf(file, env) ==
    LET h == HeaderCheck(file)
        rec == PdfRec("extract_from_pdf")
    IN  IF h = "markup" THEN extract_from_xml(file)
        ELSE IF h # "pdf" THEN [rec |-> Rejected(rec, file, h), trace |-> <<>>]
        ELSE IF env.PDF_LIB = "none"
        THEN [rec |-> [rec EXCEPT !.error = "no_pdf_library"], trace |-> <<>>]
        ELSE IF file.pdf.open_raises
        THEN [rec |-> [rec EXCEPT !.error = "pdf_open_error"],
              trace |-> <<env.PDF_LIB>>]
        ELSE [rec |-> [rec EXCEPT !.success = TRUE,
                                  !.text = IF env.PDF_LIB = "pymupdf"
                                           THEN JoinAll(file, file.pdf.text_pages > 0)
                                           ELSE IF file.pdf.text_pages > 0
                                                THEN <<"transcript">> ELSE <<>>],
              trace |-> <<env.PDF_LIB>>]

(***************************************************************************)
(* The transcript, page by page.  A page is the text the engine gives for  *)
(* it, a sequence of characters, empty for a page without a text layer;    *)
(* SEP stands for the page-separator marker, a text no page holds.         *)
(***************************************************************************)
SEP == "SEP"

\* marker.join(texts)
RECURSIVE JoinPages(_)
JoinPages(texts) ==
    IF texts = <<>> THEN <<>>
    ELSE IF Len(texts) = 1 THEN texts[1]
    ELSE texts[1] \o <<SEP>> \o JoinPages(Tail(texts))

\* line 368: [p for p in extracted_text if p and p.strip()]
NonBlankPages(texts) == SelectSeq(texts, LAMBDA p : PyStrip(p, Whitespace) # <<>>)

\* lines 961-963: if text: texts.append(text)
TruthyPages(texts) == SelectSeq(texts, LAMBDA p : p # <<>>)

\* lines 316-407 with an engine and OCR installed: the transcript stored as
\* text, and what was invoked; ocr_pages are the texts OCR reads off the pages
AcquireFirst(lib, pages, ocr_pages) ==
    IF PyStrip(JoinPages(NonBlankPages(pages)), Whitespace) # <<>>
    THEN [text |-> JoinPages(NonBlankPages(pages)), trace |-> <<lib>>]
    ELSE [text |-> JoinPages(ocr_pages), trace |-> <<lib, "ocr">>]

\* lines 955-975: the transcript of the definition of line 931
AcquireSecond(lib, pages) ==
    [text |-> IF lib = "pdfplumber" THEN JoinPages(TruthyPages(pages))
              ELSE JoinPages(pages),
     trace |-> <<lib>>]

(***************************************************************************)
(* download_and_parse_boh (lines 1687-1825).  A link of the listing is     *)
(* its href: "none" (no href attribute), "xml" (the href holds ".xml"),    *)
(* "other".  What the loop body meets for one link:                        *)
(*   dl     "ok", or "error" when the download or the write raises         *)
(*   file   the file written, svc the answer of the AI service             *)
(***************************************************************************)
HrefKinds == {"none", "xml", "other"}

\* lines 1739-1740: is_xml and ext
IsXml(href) == href = "xml"

Ext(href) == IF IsXml(href) THEN ".xml" ELSE ".pdf"

\* an element of parsed_files: the record, its filename kept as (idx, ext)
Entry(i, href, r) == [idx |-> i, ext |-> Ext(href), rec |-> r]

\* lines 1804-1805: {"filename": filename, "error": str(e)}
ExceptionRec ==
    [BaseRec EXCEPT !.src = "download_and_parse_boh", !.has_success = FALSE,
                    !.error = "exception"]

\* lines 1756-1762: the extractor chosen by the href
AiStrategy(a) == [rec |-> a.rec, trace |-> <<"analyze_pdf_with_gemini">> \o a.trace]

Dispatch(href, file, svc) ==
    IF IsXml(href) THEN extract_from_xml(file)
    ELSE AiStrategy(analyze_pdf_with_gemini(file, svc))

\* lines 1766-1772: analysis.get on the record's analysis raises unless the
\* analysis is a dict
DisplayRaises(r) == r.success /\ r.analysis = "str"

\* lines 1746-1806, one pass of the loop body: the entries appended to
\* parsed_files and the strategies that ran
\* lines 1764-1806: parsed is appended, then displayed
Appended(i, href, parsed) ==
    [entries |-> IF DisplayRaises(parsed.rec)
                 THEN <<Entry(i, href, parsed.rec), Entry(i, href, ExceptionRec)>>
                 ELSE <<Entry(i, href, parsed.rec)>>,
     trace |-> parsed.trace]

LoopBody(i, href, dl, file, svc) ==
    IF dl # "ok"
    THEN [entries |-> <<Entry(i, href, ExceptionRec)>>, trace |-> <<>>]
    ELSE Appended(i, href, Dispatch(href, file, svc))

\* lines 1695-1708: the record returned when the listing request is refused
ListingError(msg) ==
    <<[idx |-> 0, ext |-> "",
       rec |-> [BaseRec EXCEPT !.src = "download_and_parse_boh",
                               !.has_success = FALSE, !.error = msg]]>>

(***************************************************************************)
(* Concurrent runs of download_and_parse_boh (lines 1687-1808).  Each run  *)
(* works in the directory reports_<inn> of the process's working           *)
(* directory and, per link, requests the document, opens its path for      *)
(* writing, writes the chunks of the body, and hands the path to the       *)
(* extractor, which reads the file.  A file is the sequence of the chunks  *)
(* at its offsets; the server sends the same body for the same link.       *)
(***************************************************************************)
Runs == {1, 2}

Inns == {"inn_a", "inn_b"}

\* the hrefs of the listing the server gives for an inn
Listing == <<"xml", "other">>

\* line 1742 and lines 1688, 1743: report_<inn>_<idx><ext> in reports_<inn>
Path(inn, i, href) == <<inn, i, Ext(href)>>

Paths == {Path(n, i, Listing[i]) : n \in Inns, i \in 1..Len(Listing)}

\* lines 1748, 1752: the chunks r.iter_content yields for a document
Body(inn, i) == [k \in 1..MaxBody |-> <<inn, i, k>>]

\* a part of a file no one has written yet
HOLE == <<"hole">>

NoFile == [exists |-> FALSE, content |-> <<>>]

\* line 1751: open(path, "wb") creates the file or truncates it to nothing
Truncated == [exists |-> TRUE, content |-> <<>>]

\* line 1754: f.write(chunk) at the offset of the run's own file object
WriteAt(content, k, chunk) ==
    [j \in 1..(IF k > Len(content) THEN k ELSE Len(content)) |->
        IF j = k THEN chunk
        ELSE IF j <= Len(content) THEN content[j] ELSE HOLE]

IdleRun == [inn |-> "", pc |-> "idle", idx |-> 0, pos |-> 0, parsed |-> <<>>]

StartedRun(inn) == [inn |-> inn, pc |-> "request", idx |-> 1, pos |-> 0, parsed |-> <<>>]

RunsIdle ==
    /\ runs = [r \in Runs |-> IdleRun]
    /\ disk = [p \in Paths |-> NoFile]

\* the path of the link a run is at
PathOf(run) == Path(run.inn, run.idx, Listing[run.idx])

\* line 1808 and the loop head: on to the next link, or the loop is over
NextLink(run, entry) ==
    [run EXCEPT !.parsed = Append(run.parsed, entry),
                !.idx = run.idx + 1,
                !.pos = 0,
                !.pc = IF run.idx + 1 > Len(Listing) THEN "done" ELSE "request"]

(***************************************************************************)
(* The fetch stages with a retry loop of their own: fetch_egrul_data       *)
(* (lines 1401-1438), fetch_financial_data (lines 1440-1472) and the       *)
(* listing request of download_xml_reports (main.py, lines 68-97).  The    *)
(* listing request of download_and_parse_boh is FetchListing.  The         *)
(* outcomes of a request:                                                  *)
(*   ok                the server answers; the body can be read            *)
(*   bad_body          the server answers; reading the body raises         *)
(*   429, http_error   raise_for_status raises HTTPError                   *)
(*   connection_error  requests.get raises (no connection, timeout)        *)
(* requests counts the requests made, last is the outcome of the last one. *)
(***************************************************************************)
FetchStages == {"fetch_egrul_data", "fetch_financial_data", "download_xml_reports"}

\* the stage only asks for the listing and goes on with it after the loop
IsListingStage(stage) == stage = "download_xml_reports"

\* the body is read inside the loop by the two stages that parse it (lines
\* 1413-1420, 1452-1459)
ServerOutcomes(stage) ==
    {"ok", "429", "http_error", "connection_error"}
    \cup (IF IsListingStage(stage) THEN {} ELSE {"bad_body"})

FetchIdle ==
    fetch = [stage |-> "none", attempt |-> 0, requests |-> 0, last |-> "none",
             pc |-> "idle", out |-> "none"]

Ended(f, pc, out) == [f EXCEPT !.pc = pc, !.out = out]

\* lines 1408-1438, 1447-1472, main.py 77-97: what one pass of the loop does
\* with the outcome of its request
AfterRequest(f, outcome) ==
    CASE outcome = "ok" ->
             IF IsListingStage(f.stage) THEN Ended(f, "listed", "response")
             ELSE Ended(f, "returned", "data")
      [] outcome = "bad_body" -> Ended(f, "returned", "error_exception")
      [] outcome = "429" ->
             IF f.attempt = 2 THEN Ended(f, "returned", "error_429")
             ELSE [f EXCEPT !.attempt = @ + 1]
      [] outcome = "http_error" -> Ended(f, "returned", "error_http")
      [] outcome = "connection_error" -> Ended(f, "returned", "error_exception")

(***************************************************************************)
(* The inputs the functions are called with.                               *)
(***************************************************************************)
SubsetsUpTo(S, n) == {T \in SUBSET S : Cardinality(T) <= n}

Year2023 == PyStrV(<<"2", "0", "2", "3">>)

\* ОтчетГод: missing, a year, not a number, empty, a number after a blank,
\* a year whose predecessors are zero and negative
YearOptions ==
    {PyNone, Year2023, PyStrV(<<"2", "0", "x">>), PyStrV(<<>>), PyStrV(<<" ", "7">>),
     PyStrV(<<"1">>)}

KndOptions == {"", "0710099", KND_SIMPLIFIED}

AttrOptions == {"all", "current", "none"}

NoXmlSide == [present |-> FALSE, details |-> {}]

TotalOnly == [present |-> TRUE, details |-> {}]

SideOptions(tags) ==
    {NoXmlSide} \cup {[present |-> TRUE, details |-> d] :
                        d \in SubsetsUpTo(tags, MaxDetails) \cup {tags}}

NoBalance == [present |-> FALSE, active |-> NoXmlSide, passive |-> NoXmlSide]

BalanceOptions ==
    {NoBalance} \cup {[present |-> TRUE, active |-> a, passive |-> p] :
                        a \in SideOptions(ActiveTags), p \in SideOptions(PassiveTags)}

NoFinRez == [present |-> FALSE, items |-> {}]

FinOptions ==
    {NoFinRez} \cup {[present |-> TRUE, items |-> i] :
                       i \in SubsetsUpTo(FinTags, MaxDetails) \cup {FinTags}}

Doc(year, knd, balance, finrez, attrs) ==
    [decode |-> TRUE, wf |-> TRUE, wfBytes |-> TRUE, hasDoc |-> TRUE, year |-> year, knd |-> knd,
     balance |-> balance, finrez |-> finrez, attrs |-> attrs]

\* every shape of the balance and income blocks, under one set of attributes
StructureDocs ==
    {Doc(Year2023, "0710099", b, f, "all") : b \in BalanceOptions, f \in FinOptions}

\* every set of attributes, on a few shapes
AttributeDocs ==
    {Doc(y, k, b, f, a) :
        y \in YearOptions, k \in KndOptions,
        b \in {NoBalance, [present |-> TRUE, active |-> TotalOnly, passive |-> TotalOnly]},
        f \in {NoFinRez, [present |-> TRUE, items |-> {"Vyruch"}]},
        a \in AttrOptions}

BareDoc == Doc(PyNone, "", NoBalance, NoFinRez, "none")

\* well-formed markup without a Документ element below the root
NoDocument == [BareDoc EXCEPT !.hasDoc = FALSE]

\* bytes windows-1251 cannot decode, no markup in any encoding
Undecodable ==
    [BareDoc EXCEPT !.decode = FALSE, !.wf = FALSE, !.wfBytes = FALSE, !.hasDoc = FALSE]

\* text that is not well-formed markup
Malformed == [BareDoc EXCEPT !.wf = FALSE, !.wfBytes = FALSE, !.hasDoc = FALSE]

\* markup in UTF-8 with a character windows-1251 cannot decode
Utf8Markup == [BareDoc EXCEPT !.decode = FALSE, !.wf = FALSE, !.hasDoc = FALSE]

\* markup in UTF-16: windows-1251 decodes the bytes to text that is no markup
Utf16Markup == [BareDoc EXCEPT !.wf = FALSE, !.hasDoc = FALSE]

XmlDocs ==
    StructureDocs \cup AttributeDocs
    \cup {NoDocument, Undecodable, Malformed, Utf8Markup, Utf16Markup}

NoText ==
    [empty |-> TRUE, year |-> [za |-> PyNone, word |-> PyNone, near |-> PyNone],
     bal |-> FALSE, total_active |-> NoMatch,
     total_passive |-> NoMatch, details |-> EmptyDict, fin |-> EmptyDict]

NoPdf ==
    [encrypted |-> FALSE, meta_encrypted |-> FALSE, open_raises |-> TRUE, pages |-> 0,
     text_pages |-> 0, ocr |-> "raises", txt |-> NoText]

XmlFile(doc, utf8) ==
    [readable |-> TRUE, content |-> IF utf8 THEN <<"<", "x">> ELSE <<"<", BAD>>,
     hdr |-> "other", utf8 |-> utf8, markup |-> TRUE, xml |-> doc, pdf |-> NoPdf]

\* a path no file is at
Missing ==
    [readable |-> FALSE, content |-> <<>>, hdr |-> "other", utf8 |-> FALSE,
     markup |-> FALSE, xml |-> Malformed, pdf |-> NoPdf]

\* the element names are Cyrillic: a file in which Документ is found is in
\* windows-1251 and does not decode as UTF-8
XmlFiles ==
    {XmlFile(d, ~d.hasDoc /\ d \notin {Undecodable, Utf16Markup}) : d \in XmlDocs}
    \cup {Missing}

\* the text after the words of a total (lines 212-213), from the blank or the
\* colon that ends the word on: a number, zero, a blank, a negative in
\* parentheses, a zero after a colon, no number at all
TotalTokens ==
    {<<" ", "1", "0", "0">>, <<" ", "0">>, <<" ">>, <<" ", "(", "1", ",", "5", ")">>,
     <<":", " ", "0">>, <<":", "x">>}

\* two columns of a comparative statement, on one line and on two
TwoColumns == <<" ", "1", "0", "0", " ", "2", "0", "0">>

TwoLines == <<":", " ", "5", NL, "7">>

\* the text after a label, from the blank or the colon that ends the word on:
\* a number, zero, a blank, a negative in parentheses, several columns, no
\* number at all
GroupTokens ==
    {<<" ", "1", "0", "0">>, <<" ", "0">>, <<" ">>, <<" ", "(", "1", ",", "5", ")">>,
     TwoColumns, TwoLines, <<":", "x">>}

TotalOptions == {NoMatch} \cup {Matched(g) : g \in TotalTokens}

TokenMaps(keys) == {[k \in d |-> g] : d \in SubsetsUpTo(keys, MaxDetails), g \in GroupTokens}

Text(year, bal, ta, tp, details, fin) ==
    [empty |-> FALSE, year |-> year, bal |-> bal, total_active |-> ta,
     total_passive |-> tp, details |-> details, fin |-> fin]

YearWord == PyStrV(<<"g", "o", "d">>)

Year2022 == PyStrV(<<"2", "0", "2", "2">>)

YearPhrase(za, word, near) == [za |-> za, word |-> word, near |-> near]

NoYear == YearPhrase(PyNone, PyNone, PyNone)

\* a year found only after the word of line 161
NearYear(y) == YearPhrase(PyNone, PyNone, y)

\* "za 2023" alone, "za 2023 god", a year after balans / otchet, both phrases
TextYears ==
    {NoYear, YearPhrase(Year2023, PyNone, PyNone), YearPhrase(Year2023, YearWord, PyNone),
     NearYear(Year2022), YearPhrase(Year2023, YearWord, Year2022)}

RevenueOnly == [k \in {"revenue"} |-> <<" ", "1", "0", "0">>]

TextProfiles ==
    {Text(y, TRUE, ta, tp, EmptyDict, f) :
        y \in TextYears, ta \in TotalOptions, tp \in TotalOptions,
        f \in {EmptyDict, RevenueOnly}}
    \cup {Text(y, TRUE, NoMatch, NoMatch, d, f) :
            y \in TextYears, d \in TokenMaps(ActiveLabels \cup PassiveLabels),
            f \in {EmptyDict, RevenueOnly}}
    \cup {Text(y, b, NoMatch, NoMatch, EmptyDict, f) :
            y \in TextYears, b \in BOOLEAN, f \in TokenMaps(FinKeys)}

FullText ==
    Text(NearYear(Year2023), TRUE, Matched(<<" ", "1", "0", "0">>),
         Matched(<<" ", "1", "0", "0">>),
         EmptyDict, RevenueOnly)

PlainText == Text(NoYear, FALSE, NoMatch, NoMatch, EmptyDict, EmptyDict)

\* the text after the word of line 226 in "Выручка 1 000 000"
RevenueMillion == <<" ", "1", " ", "0", "0", "0", " ", "0", "0", "0">>

RevenueLine ==
    Text(NoYear, FALSE, NoMatch, NoMatch, EmptyDict, [k \in {"revenue"} |-> RevenueMillion])

PdfStructures ==
    {[encrypted |-> e, meta_encrypted |-> m, open_raises |-> o, pages |-> n,
      text_pages |-> t, ocr |-> c, txt |-> FullText] :
        e \in BOOLEAN, m \in BOOLEAN, o \in BOOLEAN, n \in 0..MaxPages,
        t \in 0..MaxPages, c \in {"raises", "empty", "text"}}

\* a one-page document with a text layer
SimplePdf(txt) ==
    [encrypted |-> FALSE, meta_encrypted |-> FALSE, open_raises |-> FALSE, pages |-> 1,
     text_pages |-> 1, ocr |-> "text", txt |-> txt]

PdfFile(p) ==
    [readable |-> TRUE, content |-> PDF_MAGIC \o <<BAD>>, hdr |-> "pdf", utf8 |-> FALSE,
     markup |-> FALSE, xml |-> Malformed, pdf |-> p]

\* a file that is neither a paginated document nor markup
OtherFile ==
    [readable |-> TRUE, content |-> <<"x">>, hdr |-> "other", utf8 |-> TRUE,
     markup |-> FALSE, xml |-> Malformed, pdf |-> NoPdf]

\* a text file: no signature of a paginated document, no markup, txt is what
\* the text parser would find in it
PlainTextFile(txt) == [OtherFile EXCEPT !.pdf = [NoPdf EXCEPT !.txt = txt]]

\* the contents the header check is given: pieces of up to MaxChunks chunks
Chunks == {"%PDF", "%PD", "<?xml", "<", " ", "x", BAD}

ChunkChars(k) ==
    CASE k = "%PDF" -> PDF_MAGIC
      [] k = "%PD" -> <<"%", "P", "D">>
      [] k = "<?xml" -> XML_DECL
      [] OTHER -> <<k>>

RECURSIVE FlattenChunks(_)
FlattenChunks(ks) ==
    IF ks = <<>> THEN <<>> ELSE ChunkChars(Head(ks)) \o FlattenChunks(Tail(ks))

Contents == {FlattenChunks(ks) : ks \in SeqsUpTo(Chunks, MaxChunks)}

\* markup is well formed only when it starts with "<", or with blanks and an
\* element; a declaration after blanks or text is not
CanBeWellFormed(content) ==
    \/ StartsWith(content, <<"<">>)
    \/ /\ StartsWith(LStrip(content, Whitespace), <<"<">>)
       /\ ~StartsWith(LStrip(content, Whitespace), XML_DECL)

\* the file with this content; doc is what the markup parsers find in it
ContentFile(content, doc) ==
    [readable |-> TRUE, content |-> content,
     hdr |-> IF StartsWith(HeaderOf(content), PDF_MAGIC) THEN "pdf" ELSE "other",
     utf8 |-> DecodesUtf8(content),
     markup |-> MarkupTest(content),
     xml |-> doc,
     pdf |-> SimplePdf(PlainText)]

ContentFiles ==
    {ContentFile(c, Malformed) : c \in Contents}
    \cup {ContentFile(c, NoDocument) :
            c \in {x \in Contents : DecodesUtf8(x) /\ CanBeWellFormed(x)}}

ExampleDoc ==
    Doc(Year2023, "0710099",
        [present |-> TRUE, active |-> TotalOnly, passive |-> TotalOnly],
        [present |-> TRUE, items |-> {"Vyruch"}], "all")

Envs == [PDF_LIB : {"pdfplumber", "pymupdf", "none"}, OCR_AVAILABLE : BOOLEAN]

NoEnv == [PDF_LIB |-> "none", OCR_AVAILABLE |-> FALSE]

NoSvc == [outcome |-> "none", text |-> <<>>]

\* the files handed to extract_from_pdf, with the libraries installed
PdfInputs ==
    {[file |-> PdfFile(p), env |-> e, svc |-> NoSvc] :
        p \in {q \in PdfStructures : /\ q.text_pages <= q.pages
                                      /\ (q.ocr = "text" => q.pages >= 1)},
        e \in Envs}
    \cup {[file |-> PdfFile(SimplePdf(x)), env |-> e, svc |-> NoSvc] :
            x \in TextProfiles \cup {PlainText, RevenueLine},
            e \in {[PDF_LIB |-> "pdfplumber", OCR_AVAILABLE |-> FALSE]}}
    \cup {[file |-> f, env |-> e, svc |-> NoSvc] :
            f \in {Missing, OtherFile, PlainTextFile(RevenueLine), XmlFile(ExampleDoc, FALSE),
                   XmlFile(NoDocument, TRUE), XmlFile(Malformed, TRUE),
                   XmlFile(Undecodable, FALSE), XmlFile(Utf8Markup, TRUE),
                   XmlFile(Utf16Markup, FALSE)} \cup ContentFiles,
            e \in {[PDF_LIB |-> "pdfplumber", OCR_AVAILABLE |-> FALSE]}}

\* the text of a page: none, a blank, words
PageTexts == {<<>>, <<" ">>, <<"a">>, <<"b">>}

AllBlank(pages) == \A k \in 1..Len(pages) : PyStrip(pages[k], Whitespace) = <<>>

\* the documents whose transcript is acquired.  The definition of line 254
\* comes to the engines only for a document with pages, and has OCR read the
\* pages only when no page has text.
PagedInputs ==
    {in \in [def : {"first", "second"}, lib : {"pdfplumber", "pymupdf"},
             pages : SeqsUpTo(PageTexts, MaxPages), ocr_pages : {<<>>}] :
        in.def = "first" => ~AllBlank(in.pages)}
    \cup {[def |-> "first", lib |-> l, pages |-> po[1], ocr_pages |-> po[2]] :
            l \in {"pdfplumber", "pymupdf"},
            po \in {x \in SeqsUpTo(PageTexts, MaxPages) \X SeqsUpTo(PageTexts, MaxPages) :
                       /\ x[1] # <<>>
                       /\ AllBlank(x[1])
                       /\ Len(x[1]) = Len(x[2])}}

\* the text the AI service can answer with
RespAlphabet == {"F", "json", "{", "}", "M", "Mu", "As", "x"}

ExampleResponses ==
    { <<"F", "json", NL, "{", "M", ",", "A", "}", NL, "F">>,
      <<"{", "Mn", ",", "As", "}">>,
      <<"x", " ", "F", "json", " ", "{", "x", " ", "F", " ", "x">>,
      <<"q", "x", "q">>, <<"1">> }

Services ==
    {[outcome |-> "ok", text |-> t] :
        t \in SeqsUpTo(RespAlphabet, MaxResp) \cup ExampleResponses}
    \cup {[outcome |-> "error", text |-> <<>>], [outcome |-> "blocked", text |-> <<>>]}

AiInputs ==
    {[file |-> f, env |-> NoEnv, svc |-> s] :
        f \in {PdfFile(SimplePdf(FullText))}, s \in Services}
    \cup {[file |-> Missing, env |-> NoEnv, svc |-> NoSvc]}

\* the JSON payloads the service can answer with, bare or in code fences
PayloadAlphabet == {"{", "}", "q", "k", "F", "M"}

Payloads == {p \in SeqsUpTo(PayloadAlphabet, MaxPayload) : JsonLoads(p).ok}

FenceStyles == {"json", "bare"}

Wrap(style, payload) ==
    (IF style = "json" THEN <<FENCE, JSONWORD, NL>> ELSE <<FENCE, NL>>)
    \o payload \o <<NL, FENCE>>

\* what the loop body of download_and_parse_boh can meet for a link
BatchFiles ==
    {XmlFile(ExampleDoc, FALSE), XmlFile(NoDocument, TRUE), XmlFile(Malformed, TRUE),
     PdfFile(SimplePdf(FullText))}

BatchServices ==
    {[outcome |-> "ok", text |-> <<"{", "M", ",", "A", "}">>],
     [outcome |-> "ok", text |-> <<"{", "M", ",", "As", "}">>],
     [outcome |-> "ok", text |-> <<"{", "x">>],
     [outcome |-> "error", text |-> <<>>]}

(***************************************************************************)
(* The normalizer run: a token is cleaned, then the canonical string of    *)
(* the number it gave is cleaned again.                                    *)
(***************************************************************************)
TokenAlphabet == {"0", "1", " ", NBSP, ",", ".", "-", "(", ")", "a"}

DecimalAlphabet == {"0", "1", ",", ".", "-", "("}

ExampleTokens ==
    { <<"(", "1", " ", "2", "3", "4", ",", "5", ")">>,
      <<"1", NBSP, "0", "0", "0", NBSP, "0", "0", "0">>,
      <<"1", ".", "2", "3", "4">>,
      <<"a", "b", "c">> }

Tokens == SeqsUpTo(TokenAlphabet, MaxTokLen) \cup ExampleTokens

DecimalTokens == SeqsUpTo(DecimalAlphabet, MaxDecLen)

CallIdle ==
    /\ op = "none"
    /\ inp = [file |-> Missing, env |-> NoEnv, svc |-> NoSvc]
    /\ result = BaseRec
    /\ trace = <<>>
    /\ recFenced = BaseRec

BatchIdle ==
    /\ attempt = 0
    /\ links = <<>>
    /\ idx = 0
    /\ served = <<>>
    /\ parsed_files = <<>>
    /\ boh_parsed = <<>>
    /\ batchPc = "idle"

CleanIdle ==
    /\ tok = <<>>
    /\ cnOut = PyNone
    /\ cnOut2 = PyNone
    /\ cnPc = "idle"

InitClean ==
    /\ tok \in Tokens
    /\ cnOut = PyNone
    /\ cnOut2 = PyNone
    /\ cnPc = "start"
    /\ CallIdle
    /\ BatchIdle
    /\ RunsIdle
    /\ FetchIdle

InitDecimal ==
    /\ tok \in DecimalTokens
    /\ cnOut = PyNone
    /\ cnOut2 = PyNone
    /\ cnPc = "start"
    /\ CallIdle
    /\ BatchIdle
    /\ RunsIdle
    /\ FetchIdle

CleanNumber ==
    /\ cnPc = "start"
    /\ cnOut' = clean_number(tok)
    /\ cnPc' = "cleaned"
    /\ UNCHANGED <<runVars, fetch>>
    /\ UNCHANGED <<tok, cnOut2, callVars, batchVars>>

Renormalize ==
    /\ cnPc = "cleaned"
    /\ cnOut.t # "none"
    /\ cnOut2' = clean_number(PyStr(cnOut))
    /\ cnPc' = "renorm"
    /\ UNCHANGED <<runVars, fetch>>
    /\ UNCHANGED <<tok, cnOut, callVars, batchVars>>

NextClean == CleanNumber \/ Renormalize

SpecClean == InitClean /\ [][NextClean]_vars

SpecDecimal == InitDecimal /\ [][NextClean]_vars

(***************************************************************************)
(* The extractors and the batch loop.  One function is called on one input *)
(* in a behaviour; download_and_parse_boh runs link by link.               *)
(***************************************************************************)
Init ==
    /\ CleanIdle
    /\ CallIdle
    /\ BatchIdle
    /\ RunsIdle
    /\ FetchIdle

Returns(name, in, out) ==
    /\ op = "none"
    /\ batchPc = "idle"
    /\ op' = name
    /\ inp' = in
    /\ result' = out.rec
    /\ trace' = out.trace
    /\ UNCHANGED <<runVars, fetch>>
    /\ UNCHANGED <<recFenced, cleanVars, batchVars>>

ParseAccountingXml ==
    \E f \in XmlFiles :
        Returns("parse_accounting_xml", [file |-> f, env |-> NoEnv, svc |-> NoSvc],
                [rec |-> parse_accounting_xml(f), trace |-> <<"parse_accounting_xml">>])

ExtractFromXml ==
    \E f \in XmlFiles :
        Returns("extract_from_xml", [file |-> f, env |-> NoEnv, svc |-> NoSvc],
                extract_from_xml(f))

ExtractFromPdfFirst ==
    \E in \in PdfInputs :
        Returns("extract_from_pdf_first", in, extract_from_pdf_first(in.file, in.env))

ExtractFromPdf ==
    \E in \in PdfInputs :
        Returns("extract_from_pdf", in, extract_from_pdf(in.file, in.env))

\* the heuristic extractor on a transcript
ParseAccountingFromText ==
    \E x \in TextProfiles \cup {NoText, PlainText} :
        Returns("parse_accounting_from_text", [txt |-> x],
                [rec |-> parse_accounting_from_text(x),
                 trace |-> <<"parse_accounting_from_text">>])

\* the trace ends with "raise" when the call raised instead of returning
Outcome(a) ==
    [rec |-> a.rec, trace |-> a.trace \o (IF a.raised THEN <<"raise">> ELSE <<>>)]

AnalyzePdfWithGemini ==
    \E in \in AiInputs :
        Returns("analyze_pdf_with_gemini", in,
                Outcome(analyze_pdf_with_gemini(in.file, in.svc)))

\* the service answers with a JSON payload as it is
AnalyzeUnwrapped ==
    \E p \in Payloads, style \in FenceStyles :
        Returns("unwrapped",
                [file |-> PdfFile(SimplePdf(FullText)), env |-> NoEnv,
                 svc |-> [outcome |-> "ok", text |-> p, style |-> style]],
                analyze_pdf_with_gemini(PdfFile(SimplePdf(FullText)),
                                        [outcome |-> "ok", text |-> p]))

\* the service answers with the same payload in code fences
AnalyzeWrapped ==
    /\ op = "unwrapped"
    /\ op' = "wrapped"
    /\ recFenced' =
           analyze_pdf_with_gemini(
               inp.file, [outcome |-> "ok",
                          text |-> Wrap(inp.svc.style, inp.svc.text)]).rec
    /\ UNCHANGED <<runVars, fetch>>
    /\ UNCHANGED <<inp, result, trace, cleanVars, batchVars>>

\* the transcript of a document is acquired page by page, by either
\* definition of extract_from_pdf, with OCR installed
AcquireTranscript ==
    \E in \in PagedInputs :
        Returns("transcript", in,
                LET t == IF in.def = "first"
                         THEN AcquireFirst(in.lib, in.pages, in.ocr_pages)
                         ELSE AcquireSecond(in.lib, in.pages)
                IN  [rec |-> [BaseRec EXCEPT !.src = in.def, !.success = TRUE,
                                             !.text = t.text],
                     trace |-> t.trace])

\* lines 1687-1693: the function is entered
EnterBatch ==
    /\ op = "none"
    /\ batchPc = "idle"
    /\ op' = "download_and_parse_boh"
    /\ batchPc' = "listing"
    /\ UNCHANGED <<runVars, fetch>>
    /\ UNCHANGED <<inp, result, trace, recFenced, cleanVars,
                   attempt, links, idx, served, parsed_files, boh_parsed>>

\* lines 1695-1715: the listing request, tried up to three times
FetchListing ==
    /\ batchPc = "listing"
    /\ \E outcome \in {"ok", "429", "http_error", "connection_error"} :
        \E ls \in SeqsUpTo(HrefKinds, MaxLinks) :
           CASE outcome = "ok" /\ ls = <<>> ->
                    /\ batchPc' = "returned"
                    /\ boh_parsed' = <<>>
                    /\ UNCHANGED <<attempt, links, idx>>
             [] outcome = "ok" /\ ls # <<>> ->
                    /\ batchPc' = "loop"
                    /\ links' = ls
                    /\ idx' = 1
                    /\ UNCHANGED <<attempt, boh_parsed>>
             [] outcome = "429" /\ attempt < 2 ->
                    /\ attempt' = attempt + 1
                    /\ UNCHANGED <<batchPc, links, idx, boh_parsed>>
             [] outcome = "429" /\ attempt = 2 ->
                    /\ batchPc' = "returned"
                    /\ boh_parsed' = ListingError("429")
                    /\ UNCHANGED <<attempt, links, idx>>
             [] outcome = "http_error" ->
                    /\ batchPc' = "returned"
                    /\ boh_parsed' = ListingError("HTTP")
                    /\ UNCHANGED <<attempt, links, idx>>
             [] outcome = "connection_error" ->
                    /\ batchPc' = "raised"
                    /\ UNCHANGED <<attempt, links, idx, boh_parsed>>
    /\ UNCHANGED <<runVars, fetch>>
    /\ UNCHANGED <<served, parsed_files, callVars, cleanVars>>

\* lines 1732-1734: a link without href is passed over
SkipLink ==
    /\ batchPc = "loop"
    /\ idx <= Len(links)
    /\ links[idx] = "none"
    /\ idx' = idx + 1
    /\ UNCHANGED <<runVars, fetch>>
    /\ UNCHANGED <<attempt, links, served, parsed_files, boh_parsed, batchPc,
                   callVars, cleanVars>>

\* what the loop body appended, and what it met
Record(dl, f, body) ==
    /\ parsed_files' = parsed_files \o body.entries
    /\ served' = Append(served, [idx |-> idx, href |-> links[idx], dl |-> dl,
                                  file |-> f, trace |-> body.trace])

\* lines 1736-1808: the loop body for a link with an href
ProcessLink ==
    /\ batchPc = "loop"
    /\ idx <= Len(links)
    /\ links[idx] # "none"
    /\ \E dl \in {"ok", "error"}, f \in BatchFiles, s \in BatchServices :
          Record(dl, f, LoopBody(idx, links[idx], dl, f, s))
    /\ idx' = idx + 1
    /\ UNCHANGED <<runVars, fetch>>
    /\ UNCHANGED <<attempt, links, boh_parsed, batchPc, callVars, cleanVars>>

\* lines 1810-1825: the loop is over, parsed_files is returned
ReturnParsed ==
    /\ batchPc = "loop"
    /\ idx > Len(links)
    /\ boh_parsed' = parsed_files
    /\ batchPc' = "returned"
    /\ UNCHANGED <<runVars, fetch>>
    /\ UNCHANGED <<attempt, links, idx, served, parsed_files, callVars, cleanVars>>

\* a fetch stage is entered: fetch_egrul_data (lines 1401-1406),
\* fetch_financial_data (lines 1440-1445), download_xml_reports (main.py,
\* lines 68-75)
EnterFetch ==
    /\ op = "none"
    /\ batchPc = "idle"
    /\ fetch.pc = "idle"
    /\ \E stage \in FetchStages :
          /\ op' = stage
          /\ fetch' = [stage |-> stage, attempt |-> 0, requests |-> 0,
                       last |-> "none", pc |-> "request", out |-> "none"]
    /\ UNCHANGED <<inp, result, trace, recFenced, cleanVars, batchVars, runVars>>

\* one pass of the loop: the request and what its outcome leads to
FetchRequest ==
    /\ fetch.pc = "request"
    /\ \E outcome \in ServerOutcomes(fetch.stage) :
          fetch' = AfterRequest([fetch EXCEPT !.requests = @ + 1, !.last = outcome],
                                outcome)
    /\ UNCHANGED <<callVars, cleanVars, batchVars, runVars>>

Next ==
    \/ ParseAccountingXml
    \/ ExtractFromXml
    \/ ExtractFromPdfFirst
    \/ ExtractFromPdf
    \/ ParseAccountingFromText
    \/ AnalyzePdfWithGemini
    \/ AnalyzeUnwrapped
    \/ AnalyzeWrapped
    \/ AcquireTranscript
    \/ EnterBatch
    \/ FetchListing
    \/ SkipLink
    \/ ProcessLink
    \/ ReturnParsed
    \/ EnterFetch
    \/ FetchRequest

Spec == Init /\ [][Next]_vars

(***************************************************************************)
(* Two runs of download_and_parse_boh in one process, for the same inn or  *)
(* for different ones, their steps interleaved.                            *)
(***************************************************************************)
InitRuns ==
    /\ CleanIdle
    /\ CallIdle
    /\ BatchIdle
    /\ FetchIdle
    /\ runs \in [Runs -> {StartedRun(n) : n \in Inns}]
    /\ disk = [p \in Paths |-> NoFile]

RunStep(r, run) ==
    /\ runs' = [runs EXCEPT ![r] = run]
    /\ UNCHANGED <<cleanVars, callVars, batchVars, fetch>>

\* lines 1748-1749: the document is requested; a refused request raises and
\* lines 1803-1805 append the error entry
RequestDocument(r) ==
    /\ runs[r].pc = "request"
    /\ \E dl \in {"ok", "error"} :
          IF dl = "ok" THEN RunStep(r, [runs[r] EXCEPT !.pc = "open"])
          ELSE RunStep(r, NextLink(runs[r], [idx |-> runs[r].idx, ok |-> FALSE,
                                              content |-> <<>>]))
    /\ UNCHANGED disk

\* line 1751: the path is opened for writing
OpenPath(r) ==
    /\ runs[r].pc = "open"
    /\ disk' = [disk EXCEPT ![PathOf(runs[r])] = Truncated]
    /\ RunStep(r, [runs[r] EXCEPT !.pc = "write", !.pos = 0])

\* lines 1752-1754: one chunk is written; after the last one the file is closed
WriteChunk(r) ==
    /\ runs[r].pc = "write"
    /\ disk' = [disk EXCEPT ![PathOf(runs[r])].content =
                   WriteAt(@, runs[r].pos + 1, Body(runs[r].inn, runs[r].idx)[runs[r].pos + 1])]
    /\ RunStep(r, [runs[r] EXCEPT !.pos = @ + 1,
                                  !.pc = IF runs[r].pos + 1 = MaxBody THEN "parse"
                                         ELSE "write"])

\* lines 1756-1764: the extractor reads the file at the path; what it read is
\* kept with the entry it appends
ParsePath(r) ==
    /\ runs[r].pc = "parse"
    /\ RunStep(r, NextLink(runs[r], [idx |-> runs[r].idx, ok |-> TRUE,
                                     content |-> disk[PathOf(runs[r])].content]))
    /\ UNCHANGED disk

NextRuns ==
    \E r \in Runs :
        \/ RequestDocument(r)
        \/ OpenPath(r)
        \/ WriteChunk(r)
        \/ ParsePath(r)

SpecRuns == InitRuns /\ [][NextRuns]_vars

(***************************************************************************)
(* Properties of the records the extractors return.                        *)
(***************************************************************************)
Extractors ==
    {"parse_accounting_xml", "extract_from_xml", "extract_from_pdf_first",
     "extract_from_pdf", "analyze_pdf_with_gemini", "unwrapped"}

\* the value sequences under multi_year_data
ValueSeqs(r) ==
    {r.balance[l] : l \in DOMAIN r.balance}
    \cup {r.financial_results[l] : l \in DOMAIN r.financial_results}
    \cup {r.cash_flows[l] : l \in DOMAIN r.cash_flows}

\* some sequence under multi_year_data holds a value that is not None
HasValue(r) ==
    /\ r.myd = "dict"
    /\ \E s \in ValueSeqs(r) : \E i \in 1..Len(s) : s[i].t # "none"

\* record.get("success") is true
IsSuccess(r) == r.has_success /\ r.success

\* multi_year_data is absent, None or holds nothing
NoMultiYear(r) == r.myd \in {"absent", "none"} \/ (r.years = <<>> /\ ValueSeqs(r) = {})

Diagnosed(r) == r.error # "" /\ NoMultiYear(r)

\* C1: in every record parse_accounting_xml, the heuristic branch of
\* extract_from_pdf or analyze_pdf_with_gemini returns, every value sequence
\* under multi_year_data (balance, financial_results, cash_flows) is as long
\* as multi_year_data.years, whether or not the report year is known.
C1_SequencesAligned ==
    (/\ op \in {"parse_accounting_xml", "extract_from_pdf_first",
                "analyze_pdf_with_gemini"}
     /\ result.myd = "dict")
        => \A s \in ValueSeqs(result) : Len(s) = Len(result.years)

\* C2: every record an extractor returns with success = true holds at least
\* one value that is not null somewhere in multi_year_data.
C2_SuccessHasValue ==
    (op \in Extractors /\ IsSuccess(result)) => HasValue(result)

\* C3: every record that is not a success -- returned by an extractor, or
\* appended to parsed_files when the download or the extraction raised, or
\* returned for a refused listing -- carries an error and has no or an empty
\* multi_year_data.
C3_FailureDiagnosed ==
    /\ (op \in Extractors /\ ~IsSuccess(result)) => Diagnosed(result)
    /\ (op = "wrapped" /\ ~IsSuccess(recFenced)) => Diagnosed(recFenced)
    /\ \A i \in 1..Len(parsed_files) :
          ~IsSuccess(parsed_files[i].rec) => Diagnosed(parsed_files[i].rec)
    /\ \A i \in 1..Len(boh_parsed) :
          ~IsSuccess(boh_parsed[i].rec) => Diagnosed(boh_parsed[i].rec)

\* the batch has appended the record of a failed download and the record of
\* an AI answer that was no JSON
C3_Witness ==
    /\ batchPc = "returned"
    /\ \E i \in 1..Len(boh_parsed) : boh_parsed[i].rec = ExceptionRec
    /\ \E i \in 1..Len(boh_parsed) :
          /\ boh_parsed[i].rec.src = "analyze_pdf_with_gemini"
          /\ boh_parsed[i].rec.error = "json_parse_error"
          /\ ~boh_parsed[i].rec.success

\* the file holds markup in which parse_accounting_xml finds a report
ValidMarkup(f) ==
    /\ f.readable /\ f.xml.decode /\ f.xml.wf /\ f.xml.hasDoc
    /\ parse_accounting_xml(f).success

\* C4: for a document with valid structured markup the final record is the
\* structured extractor's, and no lower strategy (generic parser, heuristic,
\* delegated AI) is invoked: in extract_from_xml, and for every document the
\* batch loop downloaded.
C4_StructuredPriority ==
    /\ (op = "extract_from_xml" /\ ValidMarkup(inp.file)) =>
          /\ result.src = "parse_accounting_xml"
          /\ trace = <<"parse_accounting_xml">>
    /\ \A i \in 1..Len(served) :
          (served[i].dl = "ok" /\ ValidMarkup(served[i].file)) =>
              /\ served[i].trace = <<"parse_accounting_xml">>
              /\ \A k \in 1..Len(parsed_files) :
                    parsed_files[k].idx = served[i].idx =>
                        parsed_files[k].rec.src = "parse_accounting_xml"

\* the positions of the links that have an href, in listing order
RECURSIVE WithHref(_, _)
WithHref(ls, i) ==
    IF i > Len(ls) THEN <<>>
    ELSE (IF ls[i] # "none" THEN <<i>> ELSE <<>>) \o WithHref(ls, i + 1)

\* C5: whatever fails for the documents of a listing, the batch returns
\* exactly one record per link with an href, in listing order, a failed
\* document being a record that is no success and carries an error.
C5_OneRecordPerLink ==
    (batchPc = "returned" /\ links # <<>>) =>
        /\ Len(boh_parsed) = Len(WithHref(links, 1))
        /\ \A k \in 1..Len(boh_parsed) :
              /\ k <= Len(WithHref(links, 1)) => boh_parsed[k].idx = WithHref(links, 1)[k]
              /\ ~IsSuccess(boh_parsed[k].rec) => boh_parsed[k].rec.error # ""

\* C6: analyze_pdf_with_gemini returns the same record for a JSON payload in
\* code fences (```json ... ``` or ``` ... ```) as for the payload as it is,
\* also when the payload holds backticks inside a string.
C6_FencedSameAsUnwrapped == op = "wrapped" => recFenced = result

\* the answer of the service was invalid JSON
InvalidJson(svc) == svc.outcome = "ok" /\ ~JsonLoads(StripFences(svc.text)).ok

\* C7: in analyze_pdf_with_gemini an answer that is invalid JSON or a failure
\* of the service gives success = false with an error, for invalid JSON
\* together with the raw text of the answer; the service is called at most
\* once and the function never raises.
C7_InvalidAnswerTerminal ==
    (op = "analyze_pdf_with_gemini" /\ inp.file.readable) =>
        /\ (inp.svc.outcome # "ok" \/ InvalidJson(inp.svc)) =>
              ~IsSuccess(result) /\ result.error # ""
        /\ InvalidJson(inp.svc) =>
              /\ result.raw_response.present
              /\ result.raw_response.text = PyStrip(inp.svc.text, Whitespace)
        /\ Len(SelectSeq(trace, LAMBDA x : x = "ai_call")) <= 1
        /\ \A i \in 1..Len(trace) : trace[i] # "raise"

Engines == {"pdfplumber", "pymupdf", "ocr"}

\* C8: extract_from_pdf ends an encrypted document and a document without
\* pages with success = false before an engine or OCR is invoked, the
\* encrypted one with the diagnostic of encryption, the other with the
\* diagnostic of no pages, neither with the diagnostic of an empty transcript.
C8_StructuralDiagnostic ==
    (/\ op = "extract_from_pdf_first"
     /\ inp.file.readable
     /\ inp.file.hdr = "pdf"
     /\ (inp.file.pdf.encrypted \/ inp.file.pdf.pages = 0))
        => /\ ~IsSuccess(result)
           /\ result.error = IF inp.file.pdf.encrypted THEN "pdf_encrypted"
                             ELSE "pdf_no_pages"
           /\ \A i \in 1..Len(trace) : trace[i] \notin Engines

(***************************************************************************)
(* The reference algorithm of the Numeric Normalizer (spec section 4.1),   *)
(* step by step as the section words it.                                   *)
(***************************************************************************)
RefNormalize(t) ==
    LET plain == [i \in 1..Len(t) |-> IF t[i] \in {NBSP, THINSP} THEN " " ELSE t[i]]
        core == PyStrip(plain, {" "})
        neg == Len(core) >= 2 /\ core[1] = "(" /\ core[Len(core)] = ")"
        inner == IF neg THEN SubSeq(core, 2, Len(core) - 1) ELSE core
        kept == SelectSeq(inner, LAMBDA c : c \in Digits \cup {",", ".", "-"})
        dec == IF Contains(kept, ",") /\ ~Contains(kept, ".")
               THEN [i \in 1..Len(kept) |-> IF kept[i] = "," THEN "." ELSE kept[i]]
               ELSE kept
        val == IF dec = <<>> THEN PyNone
               ELSE IF Contains(dec, ".")
                    THEN (IF FloatSyntax(dec) THEN FloatOf(dec) ELSE PyNone)
                    ELSE (IF IntSyntax(dec) THEN PyInt(IntOf(dec)) ELSE PyNone)
    IN  IF neg THEN PyNegate(val) ELSE val

WithoutChars(t, C) == SelectSeq(t, LAMBDA c : c \notin C)

\* C9: on every token over digits, space, non-breaking space, comma, period,
\* minus, parentheses and letters _clean_number returns what the reference
\* algorithm of section 4.1 returns; it never raises; the empty token and a
\* token without a digit give None; a token wholly enclosed in parentheses
\* gives the negated value of the token without them; spaces (thousand
\* separators) do not change the value; a comma is the decimal separator
\* only when the token holds no period.
C9_CleanNumberMatchesReference ==
    cnPc = "cleaned" =>
        /\ cnOut = RefNormalize(tok)
        /\ cnOut.t \in {"none", "int", "float"}
        /\ (tok = <<>> => cnOut = PyNone)
        /\ ((\A i \in 1..Len(tok) : tok[i] \notin Digits) => cnOut = PyNone)
        /\ (ParenWrapped(CleanSpaces(tok)) =>
                cnOut = PyNegate(clean_number(WithoutChars(tok, {"(", ")"}))))
        /\ cnOut = clean_number(WithoutChars(tok, {" ", NBSP}))
        /\ (Contains(tok, ",") /\ Contains(tok, ".") => cnOut = PyNone)
        /\ (Contains(tok, ",") /\ ~Contains(tok, ".") =>
                cnOut = clean_number(ReplaceChar(tok, ",", ".")))

\* the token "(1 234,5)" has been cleaned to -1234.5
C9_Witness ==
    /\ cnPc = "cleaned"
    /\ tok = <<"(", "1", " ", "2", "3", "4", ",", "5", ")">>
    /\ cnOut = [t |-> "float", neg |-> TRUE, mant |-> 12345, scale |-> 1]

\* C10: normalization is idempotent: when _clean_number(t) is a number v,
\* _clean_number(str(v)) is v again.
C10_Idempotent == cnPc = "renorm" => cnOut2 = cnOut

(***************************************************************************)
(* Properties of the structured extractor's output shape.                  *)
(***************************************************************************)
\* the document was read, parsed, and holds a Документ element
ReadDocument(f) == f.readable /\ f.xml.decode /\ f.xml.wf /\ f.xml.hasDoc

\* a position of a line item: the attribute's text, None for a missing attribute
PositionOf(present) == IF present THEN SumValue ELSE PyNone

\* C11: for a markup document with a balance block and no income-statement
\* block, parse_accounting_xml returns multi_year_data in which every balance
\* line item has exactly 3 positions (current, prior year, prior-2-years, a
\* missing attribute being None) and financial_results is empty.
C11_BalanceOnlyShape ==
    (/\ op = "parse_accounting_xml"
     /\ ReadDocument(inp.file)
     /\ inp.file.xml.balance.present
     /\ ~inp.file.xml.finrez.present)
        => /\ IsSuccess(result)
           /\ result.myd = "dict"
           /\ \A l \in DOMAIN result.balance :
                 result.balance[l] =
                     <<PositionOf(inp.file.xml.attrs \in {"all", "current"}),
                       PositionOf(inp.file.xml.attrs = "all"),
                       PositionOf(inp.file.xml.attrs = "all")>>
           /\ result.financial_results = EmptyDict

\* a balance-only document whose line items carry the current sum only was
\* parsed: the total of the active side
C11_Witness ==
    /\ op = "parse_accounting_xml"
    /\ ReadDocument(inp.file)
    /\ inp.file.xml.balance.present
    /\ ~inp.file.xml.finrez.present
    /\ inp.file.xml.attrs = "current"
    /\ "AKTIV_vsego" \in DOMAIN result.balance
    /\ result.balance["AKTIV_vsego"] = <<SumValue, PyNone, PyNone>>

(***************************************************************************)
(* Properties of the pipeline entry point extract_from_pdf.                *)
(***************************************************************************)
\* the file is text without the signature of a paginated document and
\* without markup
IsPlainText(f) == f.readable /\ f.hdr = "other" /\ f.utf8 /\ ~f.markup

\* C12: a plain-text document (no PDF signature, no markup) that holds
\* "Выручка 1 000 000", handed to extract_from_pdf, gives a record whose
\* multi_year_data.financial_results holds [1000000] under the revenue key.
C12_PlainTextRevenue ==
    (/\ op \in {"extract_from_pdf_first", "extract_from_pdf"}
     /\ IsPlainText(inp.file)
     /\ inp.file.pdf.txt = RevenueLine)
        => /\ result.myd = "dict"
           /\ "Vyruchka" \in DOMAIN result.financial_results
           /\ result.financial_results["Vyruchka"] = <<PyInt(1000000)>>

\* the failure reasons the diagnostic of a record holds: the error is the
\* message of one exception
Reasons(r) == IF r.error = "" THEN {} ELSE {r.error}

\* C13: when every strategy attempted for a document failed, the diagnostic
\* of the final record holds the failure reason of each strategy attempted;
\* in extract_from_xml, when parse_accounting_xml failed and the generic
\* parser failed as well, the error returned holds both failures.
C13_CascadeDiagnostic ==
    (/\ op = "extract_from_xml"
     /\ trace = <<"parse_accounting_xml", "generic_xml">>
     /\ ~IsSuccess(result))
        => /\ parse_accounting_xml(inp.file).error \in Reasons(result)
           /\ GenericXmlRec(inp.file).error \in Reasons(result)

\* the outcome of the header check as the call shows it: the record of a
\* rejected file, the markup parser called first, or the stages of a
\* paginated document
ClassObserved(r, tr) ==
    IF r.error = "not_pdf" THEN "Rejected"
    ELSE IF tr # <<>> /\ tr[1] = "parse_accounting_xml" THEN "StructuredMarkup"
    ELSE "PaginatedDocument"

\* the outcome the policy gives a content; stripped: the leading "<" is looked
\* for after the blanks at the start of the text
ClassByPolicy(content, stripped) ==
    IF Take(content, 4) = PDF_MAGIC THEN "PaginatedDocument"
    ELSE IF /\ DecodesUtf8(content)
            /\ \/ HasSub(content, XML_DECL)
               \/ StartsWith(IF stripped THEN LStrip(content, Whitespace) ELSE content,
                             <<"<">>)
         THEN "StructuredMarkup"
    ELSE "Rejected"

IsPrefix(p, s) == Len(p) <= Len(s) /\ SubSeq(s, 1, Len(p)) = p

ClassifierFollows(stripped) ==
    (/\ op \in {"extract_from_pdf_first", "extract_from_pdf"}
     /\ inp.file.readable)
        => /\ ClassObserved(result, trace) = ClassByPolicy(inp.file.content, stripped)
           /\ ClassObserved(result, trace) = "Rejected" =>
                 /\ ~IsSuccess(result)
                 /\ result.error # ""
                 /\ IsPrefix(result.error_bytes, inp.file.content)
                 /\ inp.file.content # <<>> => result.error_bytes # <<>>
                 /\ trace = <<>>

InvokedAt(tr, name) == {k \in 1..Len(tr) : tr[k] = name}

\* C15: for a paginated document the delegated AI extractor is invoked only
\* after a transcript was acquired (an engine or OCR ran) and the heuristic
\* pattern extractor ran on it and recovered no balance and no income field;
\* it is never the first strategy invoked for a document.
C15_AiAfterHeuristic ==
    \A i \in 1..Len(served) :
        (served[i].dl = "ok" /\ served[i].file.readable /\ served[i].file.hdr = "pdf") =>
            \A k \in InvokedAt(served[i].trace, "analyze_pdf_with_gemini") :
                /\ k > 1
                /\ \E j \in 1..(k - 1) : served[i].trace[j] \in Engines
                /\ LET parsed == parse_accounting_from_text(served[i].file.pdf.txt)
                   IN  /\ ~parsed.active.present
                       /\ ~parsed.passive.present
                       /\ DOMAIN parsed.financial_results = {}

\* extract_from_pdf went past the structural diagnostic to the engines
ReachedEngines(file, env) ==
    /\ file.readable
    /\ file.hdr = "pdf"
    /\ PdfDiagnostic(file, env) \notin {"pdf_encrypted", "pdf_no_pages"}

\* engine A (pdfplumber) is not installed, raises on the document, or gives
\* no text for any page
EngineAFailed(file, env) ==
    \/ env.PDF_LIB # "pdfplumber"
    \/ file.pdf.open_raises
    \/ file.pdf.text_pages = 0

\* C16: in extract_from_pdf, whenever engine A (pdfplumber) is unavailable,
\* raises, or yields a transcript in which every page is blank, engine B
\* (pymupdf) is attempted before the transcript is declared empty and OCR or
\* failure is considered.
C16_EngineBAttempted ==
    (/\ op = "extract_from_pdf_first"
     /\ ReachedEngines(inp.file, inp.env)
     /\ EngineAFailed(inp.file, inp.env))
        => /\ InvokedAt(trace, "pymupdf") # {}
           /\ \A o \in InvokedAt(trace, "ocr") :
                 \E b \in InvokedAt(trace, "pymupdf") : b < o

(***************************************************************************)
(* Properties of optical recognition.                                      *)
(***************************************************************************)
\* a transcript was acquired and holds no text: in the definition of line
\* 254 the engines left no text, in the definition of line 931 the engine
\* opened the document and no page had text
TranscriptEmpty(name, file, env) ==
    IF name = "extract_from_pdf_first"
    THEN ReachedEngines(file, env) /\ ~PdfEngines(file, env).has_text
    ELSE /\ file.readable /\ file.hdr = "pdf"
         /\ env.PDF_LIB # "none"
         /\ ~file.pdf.open_raises
         /\ file.pdf.text_pages = 0

WithOcr(env, flag) == [env EXCEPT !.OCR_AVAILABLE = flag]

OcrRules(names) ==
    (op \in names /\ inp.file.readable /\ inp.file.hdr = "pdf") =>
        LET empty == TranscriptEmpty(op, inp.file, inp.env)
        IN  /\ InvokedAt(trace, "ocr") # {} <=> (empty /\ inp.env.OCR_AVAILABLE)
            /\ (empty /\ ~inp.env.OCR_AVAILABLE) => ~IsSuccess(result) /\ result.error # ""
            /\ (empty /\ inp.env.OCR_AVAILABLE /\ inp.file.pdf.ocr = "raises") =>
                  ~IsSuccess(result) /\ result.error # ""
            /\ (empty /\ op = "extract_from_pdf_first") =>
                  extract_from_pdf_first([inp.file EXCEPT !.pdf.ocr = "raises"],
                                         WithOcr(inp.env, TRUE)).rec.error
                  # extract_from_pdf_first(inp.file, WithOcr(inp.env, FALSE)).rec.error

\* C17: in extract_from_pdf optical recognition is attempted if and only if
\* the acquired transcript is empty and OCR support is available; when the
\* transcript is empty and OCR is unavailable, or OCR raises, the document
\* ends with success = false, and the diagnostic for "no recognition
\* available" differs from the one for "recognition attempted and failed".
C17_OcrOnlyWhenEmpty == OcrRules({"extract_from_pdf_first", "extract_from_pdf"})

(***************************************************************************)
(* Properties of the transcript.                                           *)
(***************************************************************************)
\* text.split(marker): the segments of a transcript
RECURSIVE Segments(_)
Segments(text) ==
    IF ~Contains(text, SEP) THEN <<text>>
    ELSE LET i == CHOOSE k \in 1..Len(text) :
                      text[k] = SEP /\ \A j \in 1..(k - 1) : text[j] # SEP
         IN  <<SubSeq(text, 1, i - 1)>> \o Segments(SubSeq(text, i + 1, Len(text)))

Markers(text) == Cardinality({k \in 1..Len(text) : text[k] = SEP})

\* the pages the transcript is of: the texts OCR read when OCR ran
PagesRead == IF InvokedAt(trace, "ocr") # {} THEN inp.ocr_pages ELSE inp.pages

\* C18: the transcript of an n-page document keeps the page boundaries: it
\* is the n texts of the pages in page order joined by the page-separator
\* marker, so it holds exactly n-1 markers and its k-th segment is the text
\* of page k, also when some pages are blank, and likewise for the OCR
\* transcript.
C18_PageBoundaries ==
    (op = "transcript" /\ Len(PagesRead) >= 1) =>
        /\ Markers(result.text) = Len(PagesRead) - 1
        /\ Segments(result.text) = PagesRead

(***************************************************************************)
(* Properties of the output shaping of parse_accounting_xml.               *)
(***************************************************************************)
\* the labels of the blocks present, in the order balance, income
BlockLabels(doc) ==
    (IF doc.balance.present THEN <<"Buhgalterskii_balans">> ELSE <<>>)
    \o (IF doc.finrez.present THEN <<"Otchet_o_finansovyh_rezultatah">> ELSE <<>>)

\* C19: the report_type parse_accounting_xml returns depends only on which
\* of the Balance and Income blocks are present: the balance label for
\* Balance alone, the income label for Income alone, the two joined with
\* " + " for both, none for neither, whatever the form code of the document.
C19_ReportTypeFromBlocks ==
    (op = "parse_accounting_xml" /\ ReadDocument(inp.file)) =>
        result.report_type = BlockLabels(inp.file.xml)

\* the label of a year number
YearLabel(y) == PyStrV(PyStr(PyInt(y)))

\* the text is a number to int(): digits, a minus sign before them allowed,
\* blanks around them
ParsesAsInt(s) == IntSyntax(PyStrip(s, Whitespace))

\* a placeholder is a text that is no number
IsPlaceholder(v) == v.t = "str" /\ v.s # <<>> /\ ~ParsesAsInt(v.s)

\* the years of the record follow from the label; absent: the label counts
\* as not given
YearsFollow(absent) ==
    (op = "parse_accounting_xml" /\ ReadDocument(inp.file)) =>
        LET label == inp.file.xml.year
        IN  IF absent THEN result.years = <<>>
            ELSE IF ParsesAsInt(label.s)
            THEN LET Y == IntOf(PyStrip(label.s, Whitespace))
                 IN  result.years = <<YearLabel(Y), YearLabel(Y - 1), YearLabel(Y - 2)>>
            ELSE /\ Len(result.years) = 3
                 /\ result.years[1] = label
                 /\ IsPlaceholder(result.years[2])
                 /\ result.years[3] = result.years[2]

\* C20: in parse_accounting_xml, a report year label that parses as the
\* integer Y gives the years [Y, Y-1, Y-2] as labels; a label that is present
\* and not empty but no integer gives [label, placeholder, placeholder] with
\* a placeholder that is no number; a missing or empty label gives no years;
\* no other year label is ever emitted.
C20_YearLabels ==
    YearsFollow(inp.file.xml.year.t = "none" \/ inp.file.xml.year = PyStrV(<<>>))

\* C20 as stated: every label that is present and no integer, the empty one
\* included, gives [label, placeholder, placeholder]
C20_YearLabelsAsStated == YearsFollow(inp.file.xml.year.t = "none")

\* a document whose year label is no number was parsed
C20_Witness ==
    /\ op = "parse_accounting_xml"
    /\ ReadDocument(inp.file)
    /\ inp.file.xml.year = PyStrV(<<"2", "0", "x">>)
    /\ result.years = <<PyStrV(<<"2", "0", "x">>), NA, NA>>

(***************************************************************************)
(* Properties of the failures of parse_accounting_xml.                     *)
(***************************************************************************)
\* the file is markup in an encoding of its own that is not windows-1251:
\* its bytes are well formed, the text windows-1251 makes of them is not
WrongEncoding(f) == f.readable /\ f.xml.wfBytes /\ ~f.xml.wf

\* the diagnostic of a markup parse failure
ParseFailureError == parse_accounting_xml(XmlFile(Malformed, TRUE)).error

\* C21: parse_accounting_xml never raises: malformed markup and undecodable
\* bytes each give success = false with a diagnostic holding the raw error,
\* the function runs once without a retry, and the failure of a file in a
\* wrong encoding is diagnosed differently from a markup parse failure.
C21_XmlFailuresDistinct ==
    (op = "parse_accounting_xml" /\ inp.file.readable) =>
        /\ (~inp.file.xml.decode \/ ~inp.file.xml.wf) =>
              ~IsSuccess(result) /\ result.error # ""
        /\ trace = <<"parse_accounting_xml">>
        /\ WrongEncoding(inp.file) => result.error # ParseFailureError

(***************************************************************************)
(* Properties of the heuristic extractor parse_accounting_from_text.       *)
(***************************************************************************)
ParsedText == op = "parse_accounting_from_text" /\ ~inp.txt.empty

\* C22: when the transcript holds a "za <YYYY>" phrase, with or without the
\* word for year after it, report_year is the four digits of that phrase; the
\* four digits found near balans / otchet are used only without such a phrase.
C22_ExplicitYearFirst ==
    ParsedText =>
        result.report_year =
            IF inp.txt.year.za.t # "none" THEN inp.txt.year.za ELSE inp.txt.year.near

\* the nearest numeric token after a label: from the first digit up to the
\* next white space
NearestToken(after) ==
    Run(From(after, Digits), GroupChars \ {" ", NL, NBSP, THINSP})

\* every value stored for a label is the normalized nearest token of its text
NearestTokenStored(stored, tails) ==
    \A l \in DOMAIN stored : stored[l] = clean_number(NearestToken(tails[l]))

\* C23: for each labeled pattern the stored value is the normalized value of
\* the one numeric token nearest after the label; numbers that follow it after
\* white space or a line break (comparative columns) are not joined to it.
C23_NearestTokenOnly ==
    ParsedText =>
        /\ NearestTokenStored(result.active.details, inp.txt.details)
        /\ NearestTokenStored(result.passive.details, inp.txt.details)
        /\ NearestTokenStored(result.financial_results, inp.txt.fin)

\* the labels and keys a result holds a value for
StoredLabels(r) ==
    DOMAIN r.active.details \cup DOMAIN r.passive.details \cup DOMAIN r.financial_results

\* C24: parse_accounting_from_text returns for every transcript, the empty and
\* the blank one included, a result of one shape: structured_data holds a
\* balance and a financial_results entry, both empty when nothing matched, and
\* a label or total whose pattern found nothing has no value at all.
C24_EmptyButWellFormed ==
    op = "parse_accounting_from_text" =>
        /\ trace = <<"parse_accounting_from_text">>
        /\ result.structured
        /\ StoredLabels(result)
               \subseteq MatchedLabels(inp.txt.details) \cup MatchedLabels(inp.txt.fin)
        /\ result.active.has_total => TotalMatch(inp.txt.total_active).m
        /\ result.passive.has_total => TotalMatch(inp.txt.total_passive).m

(***************************************************************************)
(* Properties of concurrent runs.                                          *)
(***************************************************************************)
\* every document a run parsed is the document it downloaded itself
ParsedOwn(run) ==
    \A i \in 1..Len(run.parsed) :
        run.parsed[i].ok => run.parsed[i].content = Body(run.inn, run.parsed[i].idx)

\* C25: two concurrent runs, for the same inn or not, share no mutable
\* resource: under every interleaving of their steps each run parses exactly
\* the documents it wrote itself, whole.
C25_RunsIsolated == \A r \in Runs : ParsedOwn(runs[r])

(***************************************************************************)
(* Properties of the records of all extractors.                            *)
(***************************************************************************)
ExtractorCalls ==
    {"analyze_pdf_with_gemini", "parse_accounting_xml", "extract_from_xml",
     "extract_from_pdf", "extract_from_pdf_first"}

\* C26: no extractor returns a record with both success = true and an error
\* diagnostic; an exception raised after the answer or the document was parsed
\* leaves success = false.
C26_SuccessExcludesError ==
    op \in ExtractorCalls => ~(IsSuccess(result) /\ result.error # "")

\* the file has no PDF signature and parse_accounting_xml, reading it as
\* windows-1251, parses it
LegacyMarkup(f) ==
    f.readable /\ f.hdr # "pdf" /\ IsSuccess(parse_accounting_xml(f))

\* C27: the header check of extract_from_pdf and the structured extractor agree
\* on the decoding: a file without the PDF signature that parse_accounting_xml
\* parses under windows-1251, its bytes valid UTF-8 or not, is handed to the
\* structured extractor and is not rejected as an unrecognized format.
C27_HeaderCheckAcceptsLegacy ==
    (op \in {"extract_from_pdf", "extract_from_pdf_first"} /\ LegacyMarkup(inp.file)) =>
        /\ result.error # "not_pdf"
        /\ result.src \in {"parse_accounting_xml", "extract_from_xml"}
        /\ IsSuccess(result)

(***************************************************************************)
(* Properties of the structural diagnostic and of the heuristic branch of  *)
(* extract_from_pdf.                                                       *)
(***************************************************************************)
\* C28: extract_from_pdf gives the zero-page diagnostic only for a document
\* whose pages were counted and found to be none: a document with pages is
\* never failed as zero-page, also without a PDF library and when the
\* diagnostic itself raises.
C28_ZeroPagesCounted ==
    (/\ op \in {"extract_from_pdf", "extract_from_pdf_first"}
     /\ inp.file.readable
     /\ inp.file.hdr = "pdf"
     /\ inp.file.pdf.pages > 0)
        => result.error # "pdf_no_pages"

\* the heuristic branch ran on the transcript of the document
HeuristicRan ==
    /\ op = "extract_from_pdf_first"
    /\ result.src = "extract_from_pdf_first"
    /\ IsSuccess(result)
    /\ result.text = <<"transcript">>

\* every number matched on one side of the balance is in multi_year_data
SideCarried(side, totalLabel, balance) ==
    /\ (side.has_total /\ side.total_current.t # "none") =>
           /\ totalLabel \in DOMAIN balance
           /\ balance[totalLabel] = <<side.total_current>>
    /\ \A l \in DOMAIN side.details :
           l \in DOMAIN balance /\ balance[l] = <<side.details[l]>>

AllCarried(parsed, balance) ==
    /\ SideCarried(parsed.active, "AKTIV_vsego", balance)
    /\ SideCarried(parsed.passive, "PASSIV_vsego", balance)

\* C29: in the heuristic branch of extract_from_pdf every total and line item
\* of the balance the text parser matched is in multi_year_data with its
\* normalized value, a value of 0 included: a matched total of 0 is stored as
\* [0].
C29_MatchedValuesCarried ==
    HeuristicRan =>
        AllCarried(parse_accounting_from_text(inp.file.pdf.txt), result.balance)

(***************************************************************************)
(* Properties of the fetch stages.                                         *)
(***************************************************************************)
\* C30: every fetch stage (fetch_egrul_data, fetch_financial_data, the listing
\* request of download_xml_reports and of download_and_parse_boh) makes at most
\* three requests and, whatever the server does, ends with a value: it never
\* raises, and a third 429 in a row gives an error value.
C30_FetchStagesReturn ==
    /\ fetch.requests <= 3
    /\ fetch.pc # "raised"
    /\ fetch.pc = "returned" => fetch.out # "none"
    /\ (fetch.requests = 3 /\ fetch.last = "429")
           => fetch.pc = "returned" /\ fetch.out = "error_429"
    /\ attempt <= 2
    /\ batchPc # "raised"

====
